---- MODULE Spec2Model ----
(***************************************************************************)
(* astro-routify: the route trie (RouteTrie.ts), the dispatch pipeline and *)
(* middleware chain (defineRouter.ts, defineHandler.ts) and the builder    *)
(* (RouterBuilder.ts, defineGroup.ts).                                     *)
(*                                                                         *)
(* Strings that the code inspects character by character (URL segments,    *)
(* literals) are sequences of one-character strings.  Depths are 1-based   *)
(* here (segments[i] of the code is segs[i+1]).                            *)
(***************************************************************************)
EXTENDS Integers, Sequences, FiniteSets, TLC

\* The route trie of a router and the last lookup made on it.
VARIABLES trieNodes, trieRoutes, trieRegex, built, lastFind

\* The router's options and, per request in flight, the request, its context,
\* the position of its chain and what the chain has done so far.
VARIABLES options, req, ctx, stateObjects, pc, chainIndex, frames, ret, trace,
          onErrorCalls, response

\* The builder, its one group and the routes build() hands to defineRouter.
VARIABLES builderMiddlewares, builderRoutes, builderGroups,
          groupMiddlewares, groupRoutes, finalRoutes

\* The items of the global registry, the declarations registered since the
\* registry was last cleared, and the list getItems() last handed out.
VARIABLES registryItems, registered, returned

registryVars == <<registryItems, registered, returned>>

\* A streaming response (stream.ts, createJsonStreamRoute.ts): the locals of
\* the route handler, the controller of its ReadableStream, the chunks
\* enqueued on it, the abort signal of the request and its listener, the
\* promise of the producer, and the last call made on the writer.
VARIABLES mode, controllerRef, closed, first, enqueued,
          aborted, listening, producer, lastCall

trieVars == <<trieNodes, trieRoutes, trieRegex, built, lastFind>>

dispatchVars == <<options, req, ctx, stateObjects, pc, chainIndex, frames, ret, trace,
                  onErrorCalls, response>>

\* The last call of defineRoute and what came of it.
VARIABLES lastDefine

defineVars == <<lastDefine>>

streamVars == <<mode, controllerRef, closed, first, enqueued,
                aborted, listening, producer, lastCall>>

builderVars == <<builderMiddlewares, builderRoutes, builderGroups,
                 groupMiddlewares, groupRoutes, finalRoutes, registryVars>>

\* ---------------------------------------------------------------- bounds
MaxRoutes == 5
MaxSegs == 2
MaxChain == 2
MaxCalls == 2
MaxItems == 3
MaxChunks == 3

\* ---------------------------------------------------------------- methods
Methods == {"GET", "POST", "PUT"}

\* ---------------------------------------------------------------- segments
SegP == <<"p">>
Seg1 == <<"1">>
SegA == <<"a">>
SegEnc == <<"%", "7", "0">>
SegBad == <<"%">>

Segs == {SegP, Seg1, SegA, SegEnc, SegBad}

Digits == {"0", "1", "2", "3", "4", "5", "6", "7", "8", "9"}

\* The escapes decodeURIComponent resolves in this model: %70 -> p, %25 -> %.
HexTable == (<<"7", "0">> :> "p") @@ (<<"2", "5">> :> "%")

\* decodeURIComponent throws URIError on a '%' not followed by a valid escape.
RECURSIVE DecodableFrom(_, _)
DecodableFrom(s, i) ==
    IF i > Len(s) THEN TRUE
    ELSE IF s[i] = "%"
         THEN /\ i + 2 <= Len(s)
              /\ <<s[i + 1], s[i + 2]>> \in DOMAIN HexTable
              /\ DecodableFrom(s, i + 3)
         ELSE DecodableFrom(s, i + 1)

Decodable(s) == DecodableFrom(s, 1)

RECURSIVE DecodeFrom(_, _)
DecodeFrom(s, i) ==
    IF i > Len(s) THEN <<>>
    ELSE IF s[i] = "%"
         THEN <<HexTable[<<s[i + 1], s[i + 2]>>]>> \o DecodeFrom(s, i + 3)
         ELSE <<s[i]>> \o DecodeFrom(s, i + 1)

\* decodeURIComponent(s), for a decodable s.
DecodeURIComponent(s) == DecodeFrom(s, 1)

\* segments.slice(from).join('/')
RECURSIVE JoinSlash(_, _)
JoinSlash(segs, from) ==
    IF from > Len(segs) THEN <<>>
    ELSE IF from = Len(segs) THEN segs[from]
    ELSE segs[from] \o <<"/">> \o JoinSlash(segs, from + 1)

\* path.split('/').filter(Boolean): the parts of the split, empty ones dropped.
SegmentizeKeepEmpty(parts) == parts

Segmentize(parts) == SelectSeq(parts, LAMBDA p : p # <<>>)

\* ---------------------------------------------------------------- regexes
ReDigits == "\\d+"

ReAlnum == "[0-9a-z]+"

\* The lower-case letters of the segments.
Lower == {"a", "i", "p", "v"}

\* regex.source.length
RegexSourceLength(re) == CASE re = ReDigits -> 3 [] re = ReAlnum -> 9 [] OTHER -> 0

\* regex.test(segment): \d+ and [0-9a-z]+ are unanchored, one character of
\* the class anywhere is enough.
RegexTest(re, seg) ==
    CASE re = ReDigits -> \E i \in 1..Len(seg) : seg[i] \in Digits
      [] re = ReAlnum -> \E i \in 1..Len(seg) : seg[i] \in Digits \cup Lower
      [] OTHER -> FALSE

\* new RegExp(regexStr): the constructor is given no flags.
RegexFlagsGlobal == "g"

RegexFlags == ""

\* regex.test(segment) of a regex whose lastIndex is lastIndex: with the g
\* flag the search starts at lastIndex, without it at the start.
RegexTestFrom(re, seg, lastIndex) ==
    IF RegexFlags = "g"
    THEN CASE re = ReDigits -> \E i \in (lastIndex + 1)..Len(seg) : seg[i] \in Digits
           [] OTHER -> FALSE
    ELSE RegexTest(re, seg)

\* The lastIndex test() leaves behind: with the g flag the end of the match,
\* or 0 when there is none; without it test() does not write lastIndex.
LastIndexAfter(re, seg, lastIndex) ==
    IF RegexFlags = "g"
    THEN LET hits == {i \in (lastIndex + 1)..Len(seg) : seg[i] \in Digits}
             start == CHOOSE i \in hits : \A j \in hits : i <= j
             run == {e \in start..Len(seg) : \A i \in start..e : seg[i] \in Digits}
         IN IF re # ReDigits \/ hits = {} THEN 0
            ELSE CHOOSE e \in run : \A f \in run : f <= e
    ELSE lastIndex

\* ---------------------------------------------------------------- patterns
\* The five kinds of pattern segment insert() tells apart.
Static(l) == [k |-> "S", lit |-> l, name |-> "", re |-> ""]
Regex(n, r) == [k |-> "R", lit |-> <<>>, name |-> n, re |-> r]
Param(n) == [k |-> "P", lit |-> <<>>, name |-> n, re |-> ""]
Wildcard == [k |-> "W", lit |-> <<>>, name |-> "", re |-> ""]
CatchAll == [k |-> "C", lit |-> <<>>, name |-> "", re |-> ""]

\* The edge a pattern segment follows: every :name shares the one paramChild.
ParamEdge == Param("")
EdgeOf(seg) == IF seg.k = "P" THEN ParamEdge ELSE seg

Route(m, p, h) == [method |-> m, path |-> p, handler |-> h, middlewares |-> <<>>]
NoRoute == Route("null", <<>>, "null")

RStatic == Route("GET", <<Static(SegP), Static(SegP)>>, "static")
RRegex == Route("GET", <<Static(SegP), Regex("id", ReDigits)>>, "regex")
RParam == Route("GET", <<Static(SegP), Param("id")>>, "param")
RWild == Route("GET", <<Static(SegP), Wildcard>>, "wildcard")
RCatch == Route("GET", <<CatchAll>>, "catchall")
RExact == Route("POST", <<Static(SegP)>>, "exact")
RSub == Route("PUT", <<Static(SegP), CatchAll>>, "sub")
RSlug == Route("POST", <<Static(SegP), Param("slug")>>, "slug")
RRest == Route("GET", <<Param("a"), CatchAll>>, "rest")

RouteUniverse == {RStatic, RRegex, RParam, RWild, RCatch, RExact, RSub, RSlug, RRest}

\* ---------------------------------------------------------------- the trie
Root == <<>>

NoInfo == [route |-> NoRoute, paramNames |-> <<>>]

\* node.routes.get(method) ?? null, on the insertion-ordered Map.
RoutesGet(node, method) ==
    LET es == trieRoutes[node]
        hits == {i \in 1..Len(es) : es[i].method = method}
    IN IF hits = {} THEN NoInfo ELSE es[CHOOSE i \in hits : TRUE].info

\* [...node.routes.keys()]: the methods in insertion order.
RoutesKeysReversed(node) ==
    [i \in 1..Len(trieRoutes[node]) |-> trieRoutes[node][Len(trieRoutes[node]) + 1 - i].method]

RoutesKeys(node) == [i \in 1..Len(trieRoutes[node]) |-> trieRoutes[node][i].method]

\* Map.set: an existing key keeps its position, a new key is appended.
MapSet(es, method, info) ==
    IF \E i \in 1..Len(es) : es[i].method = method
    THEN [i \in 1..Len(es) |-> IF es[i].method = method
                               THEN [method |-> method, info |-> info]
                               ELSE es[i]]
    ELSE Append(es, [method |-> method, info |-> info])

\* push, with no sort after it.
SortedPushUnsorted(rcs, rc) == Append(rcs, rc)

\* push, then the stable sort by descending source length, on a sorted list.
SortedPush(rcs, rc) ==
    LET before == {i \in 1..Len(rcs) :
                       RegexSourceLength(rcs[i].re) >= RegexSourceLength(rc.re)}
        n == Cardinality(before)
    IN SubSeq(rcs, 1, n) \o <<rc>> \o SubSeq(rcs, n + 1, Len(rcs))

\* The number of pattern segments insert() walks: it breaks at the first '**'.
WalkLen(path) ==
    LET stops == {i \in 1..Len(path) : path[i].k = "C"}
    IN IF stops = {} THEN Len(path) ELSE CHOOSE i \in stops : \A j \in stops : i <= j

NodeAt(path, n) == [i \in 1..n |-> EdgeOf(path[i])]

\* segmentize(route.path): the parts of the pattern, the empty ones (an empty
\* part is a static part of no characters) dropped.
SegmentizePattern(path) == SelectSeq(path, LAMBDA ps : ps # Static(<<>>))

RECURSIVE RegexAfter(_, _, _)
\* The regexChildren lists after walking path[i..n].
RegexAfter(rx, path, i) ==
    IF i > WalkLen(path) THEN rx
    ELSE LET node == NodeAt(path, i - 1)
             seg == path[i]
             cur == IF node \in DOMAIN rx THEN rx[node] ELSE <<>>
             known == \E j \in 1..Len(cur) : cur[j].re = seg.re /\ cur[j].name = seg.name
             rx1 == IF seg.k = "R" /\ ~known
                    THEN [nd \in DOMAIN rx \cup {node} |->
                             IF nd = node THEN SortedPush(cur, [re |-> seg.re, name |-> seg.name, lastIndex |-> 0])
                             ELSE rx[nd]]
                    ELSE rx
         IN RegexAfter(rx1, path, i + 1)

\* The routes the trie holds.
Registered ==
    UNION {{trieRoutes[nd][i].info.route : i \in 1..Len(trieRoutes[nd])} : nd \in trieNodes}

\* insert(route) on a trie t: the nodes, their routes and their regexChildren.
InsertInto(t, route) ==
    LET segments == SegmentizePattern(route.path)
        n == WalkLen(segments)
        leaf == NodeAt(segments, n)
        nodes == t.nodes \cup {NodeAt(segments, j) : j \in 0..n}
        paramNames == [i \in {j \in 1..n : segments[j].k = "P"} |-> segments[i].name]
        info == [route |-> route, paramNames |-> paramNames]
        rx == RegexAfter(t.regex, segments, 1)
    IN [nodes |-> nodes,
        regex |-> [nd \in nodes |-> IF nd \in DOMAIN rx THEN rx[nd] ELSE <<>>],
        routes |-> [nd \in nodes |->
                       LET old == IF nd \in t.nodes THEN t.routes[nd] ELSE <<>>
                       IN IF nd = leaf THEN MapSet(old, route.method, info) ELSE old]]

\* new RouteTrie()
EmptyTrie ==
    [nodes |-> {Root}, regex |-> [nd \in {Root} |-> <<>>], routes |-> [nd \in {Root} |-> <<>>]]

\* for (const route of routes) trie.insert(route)
RECURSIVE TrieOf(_, _)
TrieOf(routes, n) ==
    IF n = 0 THEN EmptyTrie ELSE InsertInto(TrieOf(routes, n - 1), routes[n])

\* insert(route), for a router of at most MaxRoutes routes.
Insert(route) ==
    /\ ~built
    /\ Cardinality(Registered) < MaxRoutes
    /\ LET t == InsertInto([nodes |-> trieNodes, regex |-> trieRegex, routes |-> trieRoutes],
                           route)
       IN /\ trieNodes' = t.nodes
          /\ trieRegex' = t.regex
          /\ trieRoutes' = t.routes
    /\ UNCHANGED <<built, lastFind>>
    /\ UNCHANGED <<dispatchVars, builderVars, streamVars, defineVars>>

\* ---------------------------------------------------------------- lookup
Result(r, al, ps) == [route |-> r, allowed |-> al, params |-> ps, err |-> FALSE]

\* A URIError raised by decodeURIComponent leaves find() through every frame.
Thrown == [route |-> NoRoute, allowed |-> <<>>, params |-> <<>>, err |-> TRUE]

NotFound == Result(NoRoute, <<>>, <<>>)

\* match.route alone: a 405 of a strategy does not end the lookup.
UsableRouteOnly(match) == match.route # NoRoute

\* match.route || (match.allowed && match.allowed.length > 0)
Usable(match) == match.route # NoRoute \/ Len(match.allowed) > 0

\* The params object built from info.paramNames and the captured values:
\* entries are written in ascending depth, a later one overwriting its name.
MaterializeParamsTwice(info, cap) ==
    LET pn == info.paramNames
        names == {pn[d] : d \in DOMAIN pn}
        depthOf(n) == CHOOSE d \in DOMAIN pn : pn[d] = n /\ \A e \in DOMAIN pn : pn[e] = n => e <= d
    IN [n \in names |-> DecodeURIComponent(DecodeURIComponent(cap[depthOf(n)]))]

MaterializeParams(info, cap) ==
    LET pn == info.paramNames
        names == {pn[d] : d \in DOMAIN pn}
        depthOf(n) == CHOOSE d \in DOMAIN pn : pn[d] = n /\ \A e \in DOMAIN pn : pn[e] = n => e <= d
    IN [n \in names |-> DecodeURIComponent(cap[depthOf(n)])]

RECURSIVE MatchNode(_, _, _, _, _)
RECURSIVE RegexLoop(_, _, _, _, _, _)
RECURSIVE StaticStep(_, _, _, _, _)
RECURSIVE RegexStep(_, _, _, _, _)
RECURSIVE ParamStep(_, _, _, _, _)
RECURSIVE WildcardStep(_, _, _, _, _)
RECURSIVE CatchAllStep(_, _, _, _, _)

\* EndOfInput without the look at the catch-all child for "empty" remaining.
EndOfInputNoCatchAll(node, method, cap) ==
    LET info == RoutesGet(node, method)
    IN IF info # NoInfo
       THEN IF \A d \in DOMAIN info.paramNames : Decodable(cap[d])
            THEN Result(info.route, <<>>, MaterializeParams(info, cap))
            ELSE Thrown
       ELSE Result(NoRoute, RoutesKeys(node), <<>>)

\* EndOfInput with the catch-all child asked before the node's own routes.
EndOfInputCatchAllFirst(node, method, cap) ==
    LET cnode == Append(node, CatchAll)
        viaCatchAll == cnode \in trieNodes /\ RoutesGet(cnode, method) # NoInfo
        info == IF viaCatchAll THEN RoutesGet(cnode, method) ELSE RoutesGet(node, method)
    IN IF viaCatchAll
       THEN Result(info.route, <<>>, "*" :> <<>>)
       ELSE IF info # NoInfo
            THEN IF \A d \in DOMAIN info.paramNames : Decodable(cap[d])
                 THEN Result(info.route, <<>>, MaterializeParams(info, cap))
                 ELSE Thrown
            ELSE Result(NoRoute, RoutesKeys(node), <<>>)

\* index === segments.length
EndOfInput(node, method, cap) ==
    LET own == RoutesGet(node, method)
        cnode == Append(node, CatchAll)
        viaCatchAll == own = NoInfo /\ cnode \in trieNodes
        info == IF viaCatchAll THEN RoutesGet(cnode, method) ELSE own
        allowed == IF info # NoInfo THEN <<>>
                   ELSE IF viaCatchAll THEN RoutesKeys(cnode) ELSE RoutesKeys(node)
    IN IF viaCatchAll /\ info # NoInfo
       THEN Result(info.route, <<>>, "*" :> <<>>)
       ELSE IF info # NoInfo
            THEN IF \A d \in DOMAIN info.paramNames : Decodable(cap[d])
                 THEN Result(info.route, <<>>, MaterializeParams(info, cap))
                 ELSE Thrown
            ELSE Result(NoRoute, allowed, <<>>)

\* 5. Catch-all Match (**)
CatchAllStep(node, segs, index, method, cap) ==
    LET cnode == Append(node, CatchAll)
        info == RoutesGet(cnode, method)
        remainder == JoinSlash(segs, index)
    IN IF cnode \in trieNodes
       THEN IF Decodable(remainder)
            THEN Result(IF info # NoInfo THEN info.route ELSE NoRoute,
                        IF info # NoInfo THEN <<>> ELSE RoutesKeys(cnode),
                        "*" :> DecodeURIComponent(remainder))
            ELSE Thrown
       ELSE NotFound

\* 4. Wildcard Match (*)
WildcardStepNoSegment(node, segs, index, method, cap) ==
    LET child == Append(node, Wildcard)
        match == MatchNode(child, segs, index, method, cap)
    IN IF child \in trieNodes /\ (match.err \/ Usable(match))
       THEN match
       ELSE CatchAllStep(node, segs, index, method, cap)

WildcardStep(node, segs, index, method, cap) ==
    LET child == Append(node, Wildcard)
        match == MatchNode(child, segs, index + 1, method, cap)
    IN IF child \in trieNodes /\ (match.err \/ Usable(match))
       THEN match
       ELSE CatchAllStep(node, segs, index, method, cap)

\* ParamStep with the wildcard child tried before the parameter child.
ParamStepWildcardFirst(node, segs, index, method, cap) ==
    LET wchild == Append(node, Wildcard)
        wmatch == MatchNode(wchild, segs, index + 1, method, cap)
        child == Append(node, ParamEdge)
        captured == (index :> segs[index]) @@ cap
        match == MatchNode(child, segs, index + 1, method, captured)
    IN IF wchild \in trieNodes /\ (wmatch.err \/ Usable(wmatch))
       THEN wmatch
       ELSE IF child \in trieNodes /\ (match.err \/ Usable(match))
            THEN match
            ELSE CatchAllStep(node, segs, index, method, cap)

\* ParamStep that returns what lies beneath the parameter child, usable or not.
ParamStepNoFallThrough(node, segs, index, method, cap) ==
    LET child == Append(node, ParamEdge)
        captured == (index :> segs[index]) @@ cap
    IN IF child \in trieNodes
       THEN MatchNode(child, segs, index + 1, method, captured)
       ELSE WildcardStep(node, segs, index, method, cap)

\* 3. Param Match
ParamStep(node, segs, index, method, cap) ==
    LET child == Append(node, ParamEdge)
        captured == (index :> segs[index]) @@ cap
        match == MatchNode(child, segs, index + 1, method, captured)
        deleted == [d \in DOMAIN captured \ {index} |-> captured[d]]
    IN IF child \in trieNodes
       THEN IF match.err \/ Usable(match)
            THEN match
            ELSE WildcardStep(node, segs, index, method, deleted)
       ELSE WildcardStep(node, segs, index, method, cap)

\* 2. Regex Match: the regexChildren in list order, from the j-th on.
RegexLoop(node, segs, index, method, cap, j) ==
    IF j > Len(trieRegex[node])
    THEN ParamStep(node, segs, index, method, cap)
    ELSE LET rc == trieRegex[node][j]
             match == MatchNode(Append(node, Regex(rc.name, rc.re)), segs, index + 1, method, cap)
         IN IF RegexTestFrom(rc.re, segs[index], rc.lastIndex)
            THEN IF match.err
                 THEN match
                 ELSE IF Usable(match)
                      THEN IF Decodable(segs[index])
                           THEN [match EXCEPT !.params =
                                    (rc.name :> DecodeURIComponent(segs[index])) @@ @]
                           ELSE Thrown
                      ELSE RegexLoop(node, segs, index, method, cap, j + 1)
            ELSE RegexLoop(node, segs, index, method, cap, j + 1)

RegexStep(node, segs, index, method, cap) == RegexLoop(node, segs, index, method, cap, 1)

\* 1. Static Match
StaticStep(node, segs, index, method, cap) ==
    LET child == Append(node, Static(segs[index]))
        match == MatchNode(child, segs, index + 1, method, cap)
    IN IF child \in trieNodes /\ (match.err \/ Usable(match))
       THEN match
       ELSE RegexStep(node, segs, index, method, cap)

MatchNode(node, segs, index, method, cap) ==
    IF index = Len(segs) + 1
    THEN EndOfInput(node, method, cap)
    ELSE StaticStep(node, segs, index, method, cap)

\* find(path, method), the path given as the parts of its split on '/'.
Find(parts, method) == MatchNode(Root, Segmentize(parts), 1, method, <<>>)

\* The regexChildren lists find() leaves behind: the tests it can run are of
\* the children of a node of depth d on the segment d + 1 of the path.
RegexChildrenAfterFind(parts) ==
    LET segs == Segmentize(parts)
    IN [nd \in DOMAIN trieRegex |->
           [j \in 1..Len(trieRegex[nd]) |->
               IF Len(nd) < Len(segs)
               THEN [trieRegex[nd][j] EXCEPT
                        !.lastIndex = LastIndexAfter(trieRegex[nd][j].re, segs[Len(nd) + 1], @)]
               ELSE trieRegex[nd][j]]]

\* ---------------------------------------------------------------- trie actions
RequestPaths == UNION {[1..n -> Segs] : n \in 0..MaxSegs}

NoFind == [called |-> FALSE, parts |-> <<>>, method |-> "GET", result |-> NotFound]

TrieInit ==
    /\ trieNodes = {Root}
    /\ trieRoutes = [nd \in {Root} |-> <<>>]
    /\ trieRegex = [nd \in {Root} |-> <<>>]
    /\ built = FALSE
    /\ lastFind = NoFind

\* Routes of one method that differ only in the names of their parameters
\* (README: structurally identical), and GET /p/:id with a second handler.
RParamSlug == Route("GET", <<Static(SegP), Param("slug")>>, "param-slug")
RParamAgain == Route("GET", <<Static(SegP), Param("id")>>, "param-again")
RRegexN == Route("GET", <<Static(SegP), Regex("n", ReDigits)>>, "regex-n")

RenamedUniverse == {RParam, RParamSlug, RParamAgain, RRegex, RRegexN}

InsertRenamed == \E route \in RenamedUniverse : Insert(route)

\* Routes whose paths have a trailing slash or an empty part: GET /a/ and
\* POST /p//a, next to GET /p/:id, GET /** and POST /p.
RTrailing == Route("GET", <<Static(SegA), Static(<<>>)>>, "trailing")
RDouble == Route("POST", <<Static(SegP), Static(<<>>), Static(SegA)>>, "double")

SlashUniverse == {RTrailing, RDouble, RParam, RCatch, RExact}

InsertSlashed == \E route \in SlashUniverse : Insert(route)

\* The parts of request paths with trailing and repeated slashes.
SlashSegs == {SegP, SegA, <<>>}

SlashPaths == UNION {[1..n -> SlashSegs] : n \in 0..(MaxSegs + 1)}

FindSlashed ==
    /\ built
    /\ ~lastFind.called
    /\ \E parts \in SlashPaths, method \in Methods :
          /\ lastFind' = [called |-> TRUE, parts |-> parts, method |-> method,
                          result |-> Find(parts, method)]
          /\ trieRegex' = RegexChildrenAfterFind(parts)
    /\ UNCHANGED <<trieNodes, trieRoutes, built>>
    /\ UNCHANGED <<dispatchVars, builderVars, streamVars, defineVars>>

\* Lookups of paths with escaped segments, %2570 (an escaped %70) among
\* them, on tries of routes that capture.
SegEncTwice == <<"%", "2", "5", "7", "0">>

EncodedUniverse == {RRegex, RParam, RCatch, RSub, RSlug}

InsertCapturing == \E route \in EncodedUniverse : Insert(route)

EncodedPaths == UNION {[1..n -> {SegP, SegEnc, SegEncTwice}] : n \in 0..MaxSegs}

\* find(path, method) for a path of paths.
FindAmong(paths) ==
    /\ built
    /\ ~lastFind.called
    /\ \E parts \in paths, method \in Methods :
          /\ lastFind' = [called |-> TRUE, parts |-> parts, method |-> method,
                          result |-> Find(parts, method)]
          /\ trieRegex' = RegexChildrenAfterFind(parts)
    /\ UNCHANGED <<trieNodes, trieRoutes, built>>
    /\ UNCHANGED <<dispatchVars, builderVars, streamVars, defineVars>>

FindEncoded == FindAmong(EncodedPaths)

\* Routes with a '*' between other segments, and lookups of paths with no,
\* one and more segments in its place.
RMiddle == Route("GET", <<Static(SegP), Wildcard, Static(SegA)>>, "middle")
RParamMiddle == Route("GET", <<Param("id"), Wildcard, Static(SegA)>>, "paramMiddle")

WildUniverse == {RMiddle, RParamMiddle, RWild, RExact}

InsertWild == \E route \in WildUniverse : Insert(route)

WildPaths == UNION {[1..n -> {SegP, SegA, <<>>}] : n \in 0..(MaxSegs + 2)}

FindWild == FindAmong(WildPaths)

\* GET routes whose first segments accept the same URL segment and whose
\* second segments differ: a lookup has to give up branches it entered.
RDigitsP == Route("GET", <<Regex("n", ReDigits), Static(SegP)>>, "digitsP")
RIdA == Route("GET", <<Param("id"), Static(SegA)>>, "idA")
RAny1 == Route("GET", <<Wildcard, Static(Seg1)>>, "any1")

BacktrackUniverse == {RStatic, RDigitsP, RIdA, RAny1}

InsertBranching == \E route \in BacktrackUniverse : Insert(route)

BacktrackPaths == UNION {[1..n -> {SegP, SegA, Seg1}] : n \in 0..MaxSegs}

FindBranching == FindAmong(BacktrackPaths)

\* Routes that end at a node and routes of the '**' child of that node.
RParamRest == Route("GET", <<Static(SegP), Param("id"), CatchAll>>, "paramRest")
RExactPut == Route("PUT", <<Static(SegP)>>, "exactPut")

ExactUniverse == {RParam, RParamRest, RExactPut, RSub, RExact}

InsertExact == \E route \in ExactUniverse : Insert(route)

ExactPaths == UNION {[1..n -> {SegP, Seg1}] : n \in 0..MaxSegs}

FindExact == FindAmong(ExactPaths)

\* Routes whose inserts can come in any order: two methods at the parameter
\* child of /p, two regex constraints of different lengths at /p, and routes
\* the sets leave out, a second GET at the parameter child of /p and a second
\* constraint of the length of \d+.
RAlnum == Route("GET", <<Static(SegP), Regex("w", ReAlnum)>>, "alnum")

OrderUniverse == {RSlug, RRegex, RAlnum, RParam, RParamSlug, RRegexN}

\* The node insert() ends at: the structural path of the route.
LeafOf(route) ==
    NodeAt(SegmentizePattern(route.path), WalkLen(SegmentizePattern(route.path)))

\* The regex constraints of a route, each with the node it hangs from.
ConstraintsOf(route) ==
    LET segments == SegmentizePattern(route.path)
    IN {[node |-> NodeAt(segments, i - 1), re |-> segments[i].re, name |-> segments[i].name] :
           i \in {j \in 1..WalkLen(segments) : segments[j].k = "R"}}

\* No two routes of one method and one structural path, no two regex
\* constraints of one pattern length at one node.
Admissible(routes) ==
    /\ \A a, b \in routes : (a.method = b.method /\ LeafOf(a) = LeafOf(b)) => a = b
    /\ \A a, b \in routes : \A c \in ConstraintsOf(a), d \in ConstraintsOf(b) :
           (c.node = d.node /\ RegexSourceLength(c.re) = RegexSourceLength(d.re)) => c = d

InsertAdmissible ==
    \E route \in OrderUniverse :
        /\ Admissible(Registered \cup {route})
        /\ Insert(route)

OrderPaths == UNION {[1..n -> {SegP, Seg1, SegA}] : n \in 0..MaxSegs}

FindOrdered == FindAmong(OrderPaths)

\* The orders a set of routes can be inserted in.
OrdersOf(routes) ==
    {order \in [1..Cardinality(routes) -> routes] :
        \A i, j \in 1..Cardinality(routes) : order[i] = order[j] => i = j}

\* The router is made again of the same routes in another order, while a
\* caller still holds the match of the router before.
InsertAgain ==
    /\ built
    /\ lastFind.called
    /\ \E order \in OrdersOf(Registered) :
          LET t == TrieOf(order, Len(order))
          IN /\ trieNodes' = t.nodes
             /\ trieRegex' = t.regex
             /\ trieRoutes' = t.routes
    /\ UNCHANGED <<built, lastFind>>
    /\ UNCHANGED <<dispatchVars, builderVars, streamVars, defineVars>>

InsertRoute == \E route \in RouteUniverse : Insert(route)

\* defineRouter has inserted every route: the trie is only read from here on.
FinishBuild ==
    /\ ~built
    /\ built' = TRUE
    /\ UNCHANGED <<trieNodes, trieRoutes, trieRegex, lastFind>>
    /\ UNCHANGED <<dispatchVars, builderVars, streamVars, defineVars>>

FindPath ==
    /\ built
    /\ ~lastFind.called
    /\ \E parts \in RequestPaths, method \in Methods :
          /\ lastFind' = [called |-> TRUE, parts |-> parts, method |-> method,
                          result |-> Find(parts, method)]
          /\ trieRegex' = RegexChildrenAfterFind(parts)
    /\ UNCHANGED <<trieNodes, trieRoutes, built>>
    /\ UNCHANGED <<dispatchVars, builderVars, streamVars, defineVars>>

\* The caller of find() is done with the match it was handed.
ReturnMatch ==
    /\ lastFind.called
    /\ lastFind' = NoFind
    /\ UNCHANGED <<trieNodes, trieRoutes, trieRegex, built>>
    /\ UNCHANGED <<dispatchVars, builderVars, streamVars, defineVars>>

\* ---------------------------------------------------------------- results and responses
\* What a handler, a middleware or an error producer hands back, the Response
\* the router returns and the Error a throw raises.  A body is the sequence of
\* its text pieces, <<>> for no body; allow is the Allow header's list.
Value(kind, status, body, allow, message) ==
    [kind |-> kind, status |-> status, body |-> body, allow |-> allow, message |-> message]

Undefined == Value("undefined", 0, <<>>, <<>>, "")

\* new Error(message)
Error(message) == Value("Error", 0, <<>>, <<>>, message)

\* new Response(body, {status, headers})
NewResponse(status, body, allow) == Value("Response", status, body, allow, "")

createResponse(status, body, allow) == Value("ResultResponse", status, body, allow, "")

ok(body) == createResponse(200, body, <<>>)

notFound == createResponse(404, <<"Not Found">>, <<>>)

\* methodNotAllowed('Method Not Allowed', {Allow: allowed.join(', ')})
methodNotAllowed(allowed) == createResponse(405, <<"Method Not Allowed">>, allowed)

\* internalError with a fixed text in place of the error's message.
internalErrorDefaultBody(err) == createResponse(500, <<"Internal Server Error">>, <<>>)

\* The thrown values of this model are Error objects: the body is err.message.
internalError(err) == createResponse(500, <<err.message>>, <<>>)

toAstroResponse(result) ==
    CASE result.kind = "Response" -> result
      [] result.kind = "undefined" -> NewResponse(204, <<>>, <<>>)
      [] result.kind = "ResultResponse" -> NewResponse(result.status, result.body, result.allow)
      [] OTHER -> NewResponse(204, <<>>, <<>>)

\* defineHandler's catch: the 500 response of an error that reaches it.
defineHandlerCatch(err) == toAstroResponse(internalError(err))

\* ---------------------------------------------------------------- requests
RequestIds == {1, 2}

SegApi == <<"a", "p", "i">>

SearchParam(key, value) == [key |-> key, value |-> value]

\* A request: the parts of its pathname, its method and its search parameters.
Request(parts, method, search) == [parts |-> parts, method |-> method, search |-> search]

NoRequest == Request(<<>>, "", <<>>)

RequestUniverse ==
    { Request(<<SegApi, SegP, Seg1>>, "GET", <<SearchParam("q", "x")>>),
      Request(<<SegApi, SegP, SegEnc>>, "GET", <<SearchParam("q", "y")>>),
      Request(<<SegApi, SegA>>, "get", <<SearchParam("q", "x"), SearchParam("q", "y")>>),
      Request(<<SegApi, SegP, Seg1>>, "POST", <<SearchParam("q", "x")>>),
      Request(<<SegApi, Seg1>>, "GET", <<SearchParam("q", "y")>>),
      Request(<<SegP, Seg1>>, "GET", <<SearchParam("q", "x")>>),
      Request(<<SegApi \o SegP, Seg1>>, "GET", <<SearchParam("q", "x")>>),
      Request(<<SegApi>>, "GET", <<SearchParam("q", "y")>>),
      Request(<<SegApi, SegP, SegBad>>, "GET", <<SearchParam("q", "y")>>),
      Request(<<SegApi, SegP, Seg1>>, "TRACE", <<SearchParam("q", "x")>>) }

\* A value of the query: a string, or an array of strings.
QueryString(value) == [isArray |-> FALSE, values |-> <<value>>]

QueryArray(values) == [isArray |-> TRUE, values |-> values]

\* url.searchParams.forEach, with each value put in the place of the one
\* before it.
RECURSIVE QueryOfOverwrite(_, _)
QueryOfOverwrite(search, n) ==
    IF n = 0 THEN <<>>
    ELSE LET query == QueryOfOverwrite(search, n - 1)
             key == search[n].key
             value == search[n].value
         IN IF key \in DOMAIN query
            THEN [query EXCEPT ![key] = QueryString(value)]
            ELSE (key :> QueryString(value)) @@ query

\* url.searchParams.forEach: a key seen for the first time maps to its
\* value; seen again, to the array of the value it had and the new one,
\* and from then on the array is pushed onto.
RECURSIVE QueryOf(_, _)
QueryOf(search, n) ==
    IF n = 0 THEN <<>>
    ELSE LET query == QueryOf(search, n - 1)
             key == search[n].key
             value == search[n].value
         IN IF key \in DOMAIN query
            THEN IF query[key].isArray
                 THEN [query EXCEPT ![key] = QueryArray(Append(@.values, value))]
                 ELSE [query EXCEPT ![key] = QueryArray(<<@.values[1], value>>)]
            ELSE (key :> QueryString(value)) @@ query

\* url.pathname: a '/' in front of every part.
RECURSIVE Pathname(_, _)
Pathname(parts, n) ==
    IF n = 0 THEN <<>> ELSE Pathname(parts, n - 1) \o <<"/">> \o parts[n]

\* text.split('/')
RECURSIVE Split(_)
Split(text) ==
    LET slashes == {i \in 1..Len(text) : text[i] = "/"}
    IN IF slashes = {} THEN <<text>>
       ELSE LET c == CHOOSE i \in slashes : \A j \in slashes : i <= j
            IN <<SubSeq(text, 1, c - 1)>> \o Split(SubSeq(text, c + 1, Len(text)))

\* pathname.startsWith(basePath)
StartsWith(text, prefix) ==
    Len(text) >= Len(prefix) /\ SubSeq(text, 1, Len(prefix)) = prefix

\* pathname.charAt(basePath.length): "" past the end.
CharAt(text, index) == IF index + 1 <= Len(text) THEN text[index + 1] ELSE ""

\* The path left of the pathname once the base path is taken off its front,
\* as the parts that split('/') makes of it; not ok when the pathname does not
\* start with the base path, or goes on after it with anything but a '/'.
StripBasePathPrefixOnly(basePath, parts) ==
    LET pathname == IF parts = <<>> THEN <<"/">> ELSE Pathname(parts, Len(parts))
        base == Pathname(basePath, Len(basePath))
    IN IF base = <<>>
       THEN [ok |-> TRUE, path |-> Split(pathname)]
       ELSE IF ~StartsWith(pathname, base)
            THEN [ok |-> FALSE, path |-> <<>>]
            ELSE [ok |-> TRUE, path |-> Split(SubSeq(pathname, Len(base) + 1, Len(pathname)))]

StripBasePath(basePath, parts) ==
    LET pathname == IF parts = <<>> THEN <<"/">> ELSE Pathname(parts, Len(parts))
        base == Pathname(basePath, Len(basePath))
    IN IF base = <<>>
       THEN [ok |-> TRUE, path |-> Split(pathname)]
       ELSE IF ~StartsWith(pathname, base)
            THEN [ok |-> FALSE, path |-> <<>>]
            ELSE IF CharAt(pathname, Len(base)) \notin {"", "/"}
                 THEN [ok |-> FALSE, path |-> <<>>]
                 ELSE [ok |-> TRUE, path |-> Split(SubSeq(pathname, Len(base) + 1, Len(pathname)))]

ALLOWED_HTTP_METHODS == {"GET", "POST", "PUT", "DELETE", "PATCH", "OPTIONS"}

toUpperCase(method) ==
    CASE method = "get" -> "GET"
      [] OTHER -> method

\* normalizeMethod without its test of the allowed set.
normalizeMethodAny(method) ==
    [threw |-> FALSE, method |-> toUpperCase(method), error |-> Undefined]

normalizeMethod(method) ==
    LET upper == toUpperCase(method)
    IN IF upper \in ALLOWED_HTTP_METHODS
       THEN [threw |-> FALSE, method |-> upper, error |-> Undefined]
       ELSE [threw |-> TRUE, method |-> "",
             error |-> Error("Unsupported HTTP method: " \o method)]

NoResponse == Value("none", 0, <<>>, <<>>, "")

\* The options of a router: whether it has an error producer and a
\* not-found producer, its base path and its debug flag.
RouterOptions(onError, basePath, onNotFound, debug) ==
    [onError |-> onError, basePath |-> basePath, onNotFound |-> onNotFound, debug |-> debug]

\* The result of the not-found producer of the options.
OnNotFound == createResponse(404, <<"custom">>, <<>>)

\* options.onNotFound ? options.onNotFound() : notFound('Not Found')
NotFoundResult == IF options.onNotFound THEN OnNotFound ELSE notFound

\* RouteOutcome with the 405 given whenever there is an allowed list, empty
\* or not.
RouteOutcomeAnyList(rq) ==
    LET stripped == StripBasePath(options.basePath, rq.parts)
        method == normalizeMethod(rq.method)
        match == Find(stripped.path, method.method)
        none(res) == [route |-> NoRoute, params |-> <<>>, response |-> res]
    IN IF ~stripped.ok THEN none(toAstroResponse(NotFoundResult))
       ELSE IF method.threw THEN none(defineHandlerCatch(method.error))
       ELSE IF match.err THEN none(defineHandlerCatch(Error("URI malformed")))
       ELSE IF match.route = NoRoute
            THEN none(toAstroResponse(methodNotAllowed(match.allowed)))
       ELSE [route |-> match.route, params |-> match.params, response |-> NoResponse]

\* The handler's way to the chain: the matched route and its params, or
\* the response of a request that reaches no route.
RouteOutcome(rq) ==
    LET stripped == StripBasePath(options.basePath, rq.parts)
        method == normalizeMethod(rq.method)
        match == Find(stripped.path, method.method)
        none(res) == [route |-> NoRoute, params |-> <<>>, response |-> res]
    IN IF ~stripped.ok THEN none(toAstroResponse(NotFoundResult))
       ELSE IF method.threw THEN none(defineHandlerCatch(method.error))
       ELSE IF match.err THEN none(defineHandlerCatch(Error("URI malformed")))
       ELSE IF match.route = NoRoute
            THEN IF Len(match.allowed) > 0
                 THEN none(toAstroResponse(methodNotAllowed(match.allowed)))
                 ELSE none(toAstroResponse(NotFoundResult))
       ELSE [route |-> match.route, params |-> match.params, response |-> NoResponse]

\* ---------------------------------------------------------------- middleware and handlers
\* What a middleware does: await next() and return its result; return a
\* result of its own without calling next(); throw before calling next();
\* await next() and throw once it has resolved.
MiddlewareKinds == {"pass", "short", "throwPre", "throwPost"}

CallsNext(mw) == mw \in {"pass", "throwPost", "twice"}

\* What a handler does after its await: return ok(id), or throw.
HandlerKinds == {"ok", "throw"}

Chains == UNION {[1..n -> MiddlewareKinds] : n \in 0..MaxChain}

\* The routes of the router that serves the requests.
DispatchTable(chain, h) ==
    << [Route("GET", <<Static(SegP), Param("id")>>, h) EXCEPT !.middlewares = chain],
       Route("GET", <<Static(SegA)>>, "ok") >>

\* What the middleware at index i returns when it does not call next().
ShortValue(i) == createResponse(401, <<"short" \o ToString(i)>>, <<>>)

\* What the middleware (or, at the chain's length, the handler) at index i throws.
ThrownBy(i) == Error("thrown" \o ToString(i))

\* The error producer of the options: a 500 result that quotes the error.
OnError(err, r) == createResponse(500, <<"caught", err.message>>, <<>>)

\* The value of the first search parameter: what the middleware of this
\* model put into ctx.state.
TokenOf(rq) == rq.search[1].value

\* index++
NextIndexSkip(i) == i + 2

NextIndex(i) == i + 1

\* res instanceof Response ? res : toAstroResponse(res), with the result dropped.
MiddlewareResultDropped(res) == toAstroResponse(Undefined)

\* res instanceof Response ? res : toAstroResponse(res)
MiddlewareResult(res) == IF res.kind = "Response" THEN res ELSE toAstroResponse(res)

\* routifyCtx.state = {}, with one object made once for every request.
StateObjectShared(r) == 1

\* routifyCtx.state = {}: the object made for request r.
StateObject(r) == r

\* The catch around the chain without a look at options.onError.
CatchBoundaryRethrow(err, r) ==
    [calls |-> <<>>, response |-> defineHandlerCatch(err)]

\* The catch around the chain: the calls of onError it makes and the response.
CatchBoundary(err, r) ==
    IF options.onError
    THEN [calls |-> <<[err |-> err, ctx |-> r]>>,
          response |-> MiddlewareResult(OnError(err, r))]
    ELSE [calls |-> <<>>, response |-> defineHandlerCatch(err)]

\* { ...routifyCtx.params }: the params of the host are dropped.
MergeParamsCaptured(host, captured) == captured

\* { ...routifyCtx.params, ...params }
MergeParams(host, captured) == captured @@ host

\* The context the host makes for a request.
HostContext == [params |-> <<>>, query |-> <<>>, state |-> 0]

\* A context whose state is a new empty object for every chain entry.
SeenInFresh(r, objects) ==
    [params |-> ctx[r].params, query |-> ctx[r].query, state |-> <<>>]

\* What code that reads the context of request r sees, the state objects
\* being as given.
SeenIn(r, objects) ==
    [params |-> ctx[r].params, query |-> ctx[r].query,
     state |-> IF ctx[r].state = 0 THEN <<>> ELSE objects[ctx[r].state]]

Seen(r) == SeenIn(r, stateObjects)

Event(ev, i, seen) == [ev |-> ev, i |-> i, seen |-> seen]

\* The route the request was matched to.
RouteOf(r) == RouteOutcome(req[r]).route

\* index < middlewares.length: a middleware is entered, else the handler.
Entered(route, i) == IF i < Len(route.middlewares) THEN "mw" ELSE "handler"

\* ---------------------------------------------------------------- dispatch actions
RequestsIdle ==
    /\ req = [r \in RequestIds |-> NoRequest]
    /\ ctx = [r \in RequestIds |-> HostContext]
    /\ stateObjects = [r \in RequestIds |-> <<>>]
    /\ pc = [r \in RequestIds |-> "idle"]
    /\ chainIndex = [r \in RequestIds |-> -1]
    /\ frames = [r \in RequestIds |-> <<>>]
    /\ ret = [r \in RequestIds |-> Undefined]
    /\ trace = [r \in RequestIds |-> <<>>]
    /\ onErrorCalls = [r \in RequestIds |-> <<>>]
    /\ response = [r \in RequestIds |-> NoResponse]

DispatchIdle ==
    /\ options = RouterOptions(FALSE, <<SegApi>>, FALSE, FALSE)
    /\ RequestsIdle

\* The host calls the router: the handler up to its first await.
ReceiveFrom(r, requests) ==
    /\ pc[r] = "idle"
    /\ \E rq \in requests :
          LET out == RouteOutcome(rq)
              obj == StateObject(r)
              c == [ctx[r] EXCEPT !.query = QueryOf(rq.search, Len(rq.search)), !.state = obj]
          IN /\ req' = [req EXCEPT ![r] = rq]
             /\ stateObjects' = [stateObjects EXCEPT ![obj] = <<>>]
             /\ IF out.route = NoRoute
                THEN /\ ctx' = [ctx EXCEPT ![r] = c]
                     /\ pc' = [pc EXCEPT ![r] = "done"]
                     /\ response' = [response EXCEPT ![r] = out.response]
                     /\ UNCHANGED chainIndex
                ELSE /\ ctx' = [ctx EXCEPT ![r] = [c EXCEPT !.params = MergeParams(@, out.params)]]
                     /\ chainIndex' = [chainIndex EXCEPT ![r] = NextIndex(-1)]
                     /\ pc' = [pc EXCEPT ![r] = Entered(out.route, NextIndex(-1))]
                     /\ UNCHANGED response
    /\ UNCHANGED <<options, frames, ret, trace, onErrorCalls>>
    /\ UNCHANGED <<trieVars, builderVars, streamVars, defineVars>>

Receive(r) == ReceiveFrom(r, RequestUniverse)

\* Params a host puts into the context it calls the router with.
HostParams == { "extra" :> <<"h">>, ("id" :> <<"h">>) @@ ("extra" :> <<"h">>) }

\* The host fills the params of the context of its next call.
Prepare(r) ==
    /\ pc[r] = "idle"
    /\ ctx[r] = HostContext
    /\ \E params \in HostParams : ctx' = [ctx EXCEPT ![r].params = params]
    /\ UNCHANGED <<options, req, stateObjects, pc, chainIndex, frames, ret, trace,
                   onErrorCalls, response>>
    /\ UNCHANGED <<trieVars, builderVars, streamVars, defineVars>>

\* Requests with repeated keys, with methods outside the allowed set below
\* and outside the base path, with a method no route has, and with a path
\* that is a strict prefix of a route's.
HostedRequests ==
    { Request(<<SegApi, SegP, Seg1>>, "GET", <<SearchParam("a", "x")>>),
      Request(<<SegApi, SegA>>, "GET",
              <<SearchParam("a", "x"), SearchParam("b", "y"), SearchParam("a", "y"),
                SearchParam("a", "x")>>),
      Request(<<SegApi, SegP, Seg1>>, "TRACE", <<SearchParam("a", "x"), SearchParam("a", "y")>>),
      Request(<<SegApi, SegA>>, "HEAD", <<SearchParam("b", "x")>>),
      Request(<<SegP, Seg1>>, "TRACE", <<SearchParam("b", "y")>>),
      Request(<<SegApi, SegP, Seg1>>, "POST", <<SearchParam("a", "y")>>),
      Request(<<SegApi, SegP>>, "GET", <<SearchParam("b", "y")>>) }

ReceiveHosted(r) == ReceiveFrom(r, HostedRequests)

\* The middleware at index runs from its entry to its call of next(), its
\* return or its throw.
MiddlewareStep(r) ==
    /\ pc[r] = "mw"
    /\ LET route == RouteOf(r)
           i == chainIndex[r]
           mw == route.middlewares[i + 1]
           pre == Event("pre", i, Seen(r))
           written == [stateObjects EXCEPT ![ctx[r].state] = (i :> TokenOf(req[r])) @@ @]
       IN /\ stateObjects' = written
          /\ \/ /\ CallsNext(mw)
                /\ trace' = [trace EXCEPT ![r] = Append(@, pre)]
                /\ frames' = [frames EXCEPT ![r] = Append(@, i)]
                /\ chainIndex' = [chainIndex EXCEPT ![r] = NextIndex(i)]
                /\ pc' = [pc EXCEPT ![r] = Entered(route, NextIndex(i))]
                /\ UNCHANGED ret
             \/ /\ mw = "short"
                /\ trace' = [trace EXCEPT ![r] = Append(@, pre)]
                /\ ret' = [ret EXCEPT ![r] = MiddlewareResult(ShortValue(i))]
                /\ pc' = [pc EXCEPT ![r] = "ret"]
                /\ UNCHANGED <<frames, chainIndex>>
             \/ /\ mw = "throwPre"
                /\ trace' = [trace EXCEPT ![r] = @ \o <<pre, Event("throw", i, SeenIn(r, written))>>]
                /\ ret' = [ret EXCEPT ![r] = ThrownBy(i)]
                /\ pc' = [pc EXCEPT ![r] = "throw"]
                /\ UNCHANGED <<frames, chainIndex>>
    /\ UNCHANGED <<options, req, ctx, onErrorCalls, response>>
    /\ UNCHANGED <<trieVars, builderVars, streamVars, defineVars>>

\* The handler runs from its entry to its await.
HandlerStep(r) ==
    /\ pc[r] = "handler"
    /\ trace' = [trace EXCEPT ![r] = Append(@, Event("h", chainIndex[r], Seen(r)))]
    /\ pc' = [pc EXCEPT ![r] = "handlerAwait"]
    /\ UNCHANGED <<options, req, ctx, stateObjects, chainIndex, frames, ret, onErrorCalls, response>>
    /\ UNCHANGED <<trieVars, builderVars, streamVars, defineVars>>

\* The handler runs on from its await: it returns ok of the id it read
\* before the await, or throws.
HandlerResume(r) ==
    /\ pc[r] = "handlerAwait"
    /\ LET before == trace[r][Len(trace[r])].seen.params
           id == IF "id" \in DOMAIN before THEN before["id"] ELSE <<>>
           h2 == Event("h2", chainIndex[r], Seen(r))
       IN \/ /\ RouteOf(r).handler = "ok"
             /\ trace' = [trace EXCEPT ![r] = Append(@, h2)]
             /\ ret' = [ret EXCEPT ![r] = MiddlewareResult(ok(id))]
             /\ pc' = [pc EXCEPT ![r] = "ret"]
          \/ /\ RouteOf(r).handler = "throw"
             /\ trace' = [trace EXCEPT ![r] = @ \o <<h2, Event("throw", chainIndex[r], Seen(r))>>]
             /\ ret' = [ret EXCEPT ![r] = ThrownBy(chainIndex[r])]
             /\ pc' = [pc EXCEPT ![r] = "throw"]
    /\ UNCHANGED <<options, req, ctx, stateObjects, chainIndex, frames, onErrorCalls, response>>
    /\ UNCHANGED <<trieVars, builderVars, streamVars, defineVars>>

\* The middleware of index j has called next() a second time.
CalledAgain(tr, j) == \E k \in 1..Len(tr) : tr[k].ev = "again" /\ tr[k].i = j

\* next() has resolved: the middleware that awaits it runs on to its return
\* or its throw, or (await next(); return await next()) to its second call
\* of next().
MiddlewareResume(r) ==
    /\ pc[r] = "ret"
    /\ frames[r] # <<>>
    /\ LET j == frames[r][Len(frames[r])]
           mw == RouteOf(r).middlewares[j + 1]
           post == Event("post", j, Seen(r))
       IN \/ /\ mw = "pass"
             /\ trace' = [trace EXCEPT ![r] = Append(@, post)]
             /\ ret' = [ret EXCEPT ![r] = MiddlewareResult(@)]
             /\ frames' = [frames EXCEPT ![r] = SubSeq(@, 1, Len(@) - 1)]
             /\ UNCHANGED pc
             /\ UNCHANGED chainIndex
          \/ /\ mw = "throwPost"
             /\ trace' = [trace EXCEPT ![r] = @ \o <<post, Event("throw", j, Seen(r))>>]
             /\ ret' = [ret EXCEPT ![r] = ThrownBy(j)]
             /\ pc' = [pc EXCEPT ![r] = "throw"]
             /\ UNCHANGED <<frames, chainIndex>>
          \/ /\ mw = "twice"
             /\ IF CalledAgain(trace[r], j)
                THEN /\ trace' = [trace EXCEPT ![r] = Append(@, post)]
                     /\ ret' = [ret EXCEPT ![r] = MiddlewareResult(@)]
                     /\ frames' = [frames EXCEPT ![r] = SubSeq(@, 1, Len(@) - 1)]
                     /\ UNCHANGED <<pc, chainIndex>>
                ELSE /\ trace' = [trace EXCEPT ![r] = Append(@, Event("again", j, Seen(r)))]
                     /\ chainIndex' = [chainIndex EXCEPT ![r] = NextIndex(@)]
                     /\ pc' = [pc EXCEPT ![r] = Entered(RouteOf(r), NextIndex(chainIndex[r]))]
                     /\ UNCHANGED <<frames, ret>>
    /\ UNCHANGED <<options, req, ctx, stateObjects, onErrorCalls, response>>
    /\ UNCHANGED <<trieVars, builderVars, streamVars, defineVars>>

\* return await next(): the chain's Response is the router's.
Complete(r) ==
    /\ pc[r] = "ret"
    /\ frames[r] = <<>>
    /\ response' = [response EXCEPT ![r] = ret[r]]
    /\ pc' = [pc EXCEPT ![r] = "done"]
    /\ UNCHANGED <<options, req, ctx, stateObjects, chainIndex, frames, ret, trace, onErrorCalls>>
    /\ UNCHANGED <<trieVars, builderVars, streamVars, defineVars>>

\* The throw leaves every pending await of next() and reaches the catch.
Catch(r) ==
    /\ pc[r] = "throw"
    /\ LET caught == CatchBoundary(ret[r], r)
       IN /\ onErrorCalls' = [onErrorCalls EXCEPT ![r] = @ \o caught.calls]
          /\ response' = [response EXCEPT ![r] = caught.response]
    /\ frames' = [frames EXCEPT ![r] = <<>>]
    /\ pc' = [pc EXCEPT ![r] = "done"]
    /\ UNCHANGED <<options, req, ctx, stateObjects, chainIndex, ret, trace>>
    /\ UNCHANGED <<trieVars, builderVars, streamVars, defineVars>>

\* The host has the response: nothing of the request is left.
Respond(r) ==
    /\ pc[r] = "done"
    /\ req' = [req EXCEPT ![r] = NoRequest]
    /\ ctx' = [ctx EXCEPT ![r] = HostContext]
    /\ stateObjects' = [stateObjects EXCEPT ![StateObject(r)] = <<>>]
    /\ pc' = [pc EXCEPT ![r] = "idle"]
    /\ chainIndex' = [chainIndex EXCEPT ![r] = -1]
    /\ frames' = [frames EXCEPT ![r] = <<>>]
    /\ ret' = [ret EXCEPT ![r] = Undefined]
    /\ trace' = [trace EXCEPT ![r] = <<>>]
    /\ onErrorCalls' = [onErrorCalls EXCEPT ![r] = <<>>]
    /\ response' = [response EXCEPT ![r] = NoResponse]
    /\ UNCHANGED options
    /\ UNCHANGED <<trieVars, builderVars, streamVars, defineVars>>

ReceiveRequest == \E r \in RequestIds : Receive(r)
RunMiddleware == \E r \in RequestIds : MiddlewareStep(r)
RunHandler == \E r \in RequestIds : HandlerStep(r)
ResumeHandler == \E r \in RequestIds : HandlerResume(r)
ResumeMiddleware == \E r \in RequestIds : MiddlewareResume(r)
CompleteChain == \E r \in RequestIds : Complete(r)
CatchError == \E r \in RequestIds : Catch(r)
SendResponse == \E r \in RequestIds : Respond(r)

PrepareContext == \E r \in RequestIds : Prepare(r)

ReceiveHostedRequest == \E r \in RequestIds : ReceiveHosted(r)

\* ---------------------------------------------------------------- builder and group
\* A middleware of the builder model: where it was given, and its number there.
Mw(scope, n) == [scope |-> scope, n |-> n]

\* The middlewares given with a route: args before the handler.
RouteMiddlewares(own, n) == [i \in 1..own |-> Mw("route", n)]

\* How many middlewares a route is given with.
OwnCounts == {0, 1}

\* The base path of the group and the paths of the routes added to it.
GroupBasePath == <<Static(SegP)>>
GroupPaths == << <<Static(Seg1)>>, <<Static(SegA)>>, <<Param("id")>> >>

\* The paths of the routes added to the builder.
BuilderPaths == << <<Static(SegA)>>, <<Static(Seg1)>>, <<CatchAll>> >>

\* No list has been asked of the registry.
NoList == [held |-> FALSE, list |-> <<>>, same |-> FALSE]

\* A list a caller holds, after the array of the registry became items: the
\* list follows when it is that very array.
Held(handle, items) == IF handle.same THEN [handle EXCEPT !.list = items] ELSE handle

BuilderIdle ==
    /\ builderMiddlewares = <<>>
    /\ builderRoutes = <<>>
    /\ builderGroups = <<>>
    /\ groupMiddlewares = <<>>
    /\ groupRoutes = <<>>
    /\ finalRoutes = <<>>
    /\ registryItems = <<>>
    /\ registered = <<>>
    /\ returned = NoList

\* builder.use(middleware)
BuilderUse ==
    /\ ~built
    /\ Len(builderMiddlewares) < MaxCalls
    /\ builderMiddlewares' =
          Append(builderMiddlewares, Mw("global", Len(builderMiddlewares) + 1))
    /\ UNCHANGED <<builderRoutes, builderGroups, groupMiddlewares, groupRoutes, finalRoutes>>
    /\ UNCHANGED registryVars
    /\ UNCHANGED <<trieVars, dispatchVars, streamVars, defineVars>>

\* group.use(middleware)
GroupUse ==
    /\ ~built
    /\ Len(groupMiddlewares) < MaxCalls
    /\ LET middleware == Mw("group", Len(groupMiddlewares) + 1)
       IN /\ groupMiddlewares' = Append(groupMiddlewares, middleware)
          /\ groupRoutes' = [k \in DOMAIN groupRoutes |->
                                [groupRoutes[k] EXCEPT !.middlewares = Append(@, middleware)]]
    /\ UNCHANGED <<builderMiddlewares, builderRoutes, builderGroups, finalRoutes>>
    /\ UNCHANGED registryVars
    /\ UNCHANGED <<trieVars, dispatchVars, streamVars, defineVars>>

\* group.add(method, path, ...middlewares, handler)
GroupAdd ==
    /\ ~built
    /\ Len(groupRoutes) < MaxCalls
    /\ \E own \in OwnCounts :
          LET n == Len(groupRoutes) + 1
              route == [Route("GET", GroupBasePath \o GroupPaths[n], "group") EXCEPT
                           !.middlewares = groupMiddlewares \o RouteMiddlewares(own, n)]
          IN groupRoutes' = Append(groupRoutes, route)
    /\ UNCHANGED <<builderMiddlewares, builderRoutes, builderGroups, groupMiddlewares, finalRoutes>>
    /\ UNCHANGED registryVars
    /\ UNCHANGED <<trieVars, dispatchVars, streamVars, defineVars>>

\* builder.add(method, subPath, ...middlewares, handler)
BuilderAdd ==
    /\ ~built
    /\ Len(builderRoutes) < MaxCalls
    /\ \E own \in OwnCounts :
          LET n == Len(builderRoutes) + 1
              route == [Route("GET", BuilderPaths[n], "builder") EXCEPT
                           !.middlewares = RouteMiddlewares(own, n)]
          IN builderRoutes' = Append(builderRoutes, route)
    /\ UNCHANGED <<builderMiddlewares, builderGroups, groupMiddlewares, groupRoutes, finalRoutes>>
    /\ UNCHANGED registryVars
    /\ UNCHANGED <<trieVars, dispatchVars, streamVars, defineVars>>

\* The number of the next call that adds a route, to the builder or to the group.
NextCall == Len(builderRoutes) + Len(groupRoutes) + 1

\* The handler given with the n-th call.
HandlerOf(n) == "h" \o ToString(n)

\* builder.addGet('/p/1', ...middlewares, handler), the group being added
\* to the builder already.
BuilderAddSame ==
    /\ ~built
    /\ builderGroups # <<>>
    /\ Len(builderRoutes) < MaxCalls
    /\ \E own \in OwnCounts :
          LET route == [Route("GET", GroupBasePath \o <<Static(Seg1)>>, HandlerOf(NextCall)) EXCEPT
                           !.middlewares = RouteMiddlewares(own, NextCall)]
          IN builderRoutes' = Append(builderRoutes, route)
    /\ UNCHANGED <<builderMiddlewares, builderGroups, groupMiddlewares, groupRoutes, finalRoutes>>
    /\ UNCHANGED registryVars
    /\ UNCHANGED <<trieVars, dispatchVars, streamVars, defineVars>>

\* group.addGet('/1', ...middlewares, handler) for the group of base path
\* /p, the group being added to the builder already.
GroupAddSame ==
    /\ ~built
    /\ builderGroups # <<>>
    /\ Len(groupRoutes) < MaxCalls
    /\ \E own \in OwnCounts :
          LET route == [Route("GET", GroupBasePath \o <<Static(Seg1)>>, HandlerOf(NextCall)) EXCEPT
                           !.middlewares = groupMiddlewares \o RouteMiddlewares(own, NextCall)]
          IN groupRoutes' = Append(groupRoutes, route)
    /\ UNCHANGED <<builderMiddlewares, builderRoutes, builderGroups, groupMiddlewares, finalRoutes>>
    /\ UNCHANGED registryVars
    /\ UNCHANGED <<trieVars, dispatchVars, streamVars, defineVars>>

\* A RouteGroup: its base path and its routes.  The group the calls of
\* GroupUse and GroupAdd work on is live: its routes are groupRoutes.
RouteGroup(basePath, routes, live) == [basePath |-> basePath, routes |-> routes, live |-> live]

LiveGroup == RouteGroup(GroupBasePath, <<>>, TRUE)

\* group.getRoutes()
getRoutes(group) == IF group.live THEN groupRoutes ELSE group.routes

\* builder.addGroup(group), for the group not yet added.
AddGroup ==
    /\ ~built
    /\ builderGroups = <<>>
    /\ builderGroups' = Append(builderGroups, LiveGroup)
    /\ UNCHANGED <<builderMiddlewares, builderRoutes, groupMiddlewares, groupRoutes, finalRoutes>>
    /\ UNCHANGED registryVars
    /\ UNCHANGED <<trieVars, dispatchVars, streamVars, defineVars>>

\* for (const group of this._groups) allRoutes.push(...group.getRoutes())
RECURSIVE RoutesOfGroups(_, _)
RoutesOfGroups(groups, n) ==
    IF n = 0 THEN <<>> ELSE RoutesOfGroups(groups, n - 1) \o getRoutes(groups[n])

\* builder.build(): the routes with the global middlewares in front, and the
\* router defineRouter makes of them.
Build ==
    /\ ~built
    /\ LET allRoutes == builderRoutes \o RoutesOfGroups(builderGroups, Len(builderGroups))
           final == [k \in DOMAIN allRoutes |->
                        [allRoutes[k] EXCEPT !.middlewares = builderMiddlewares \o @]]
           t == TrieOf(final, Len(final))
       IN /\ finalRoutes' = final
          /\ trieNodes' = t.nodes
          /\ trieRegex' = t.regex
          /\ trieRoutes' = t.routes
    /\ built' = TRUE
    /\ UNCHANGED <<builderMiddlewares, builderRoutes, builderGroups, groupMiddlewares, groupRoutes>>
    /\ UNCHANGED <<lastFind, dispatchVars, registryVars, streamVars, defineVars>>

\* The order in which the next closure runs the entries of a route's chain:
\* the middlewares by ascending index, then the handler.
ExecutedChain(route) == route.middlewares \o <<Mw("handler", 0)>>

\* ---------------------------------------------------------------- global registry
\* An item of the registry: a route made by defineRoute(..., true) or a
\* group made by defineGroup(..., true).
NoGroup == RouteGroup(<<>>, <<>>, FALSE)

RouteItem(route) == [kind |-> "route", route |-> route, group |-> NoGroup]

GroupItem(group) == [kind |-> "group", route |-> NoRoute, group |-> group]

\* The declarations the modules of the application make: GET /a in two
\* versions, GET /1, GET /p/:id and GET /p/:slug, and two versions of the
\* group of base path /p.
RegistryRoutes ==
    { Route("GET", <<Static(SegA)>>, "v1"),
      Route("GET", <<Static(SegA)>>, "v2"),
      Route("GET", <<Static(Seg1)>>, "keep"),
      Route("GET", <<Static(SegP), Param("id")>>, "id"),
      Route("GET", <<Static(SegP), Param("slug")>>, "slug") }

RegistryGroups ==
    { RouteGroup(GroupBasePath, <<Route("GET", GroupBasePath \o <<Static(Seg1)>>, "g1")>>, FALSE),
      RouteGroup(GroupBasePath, <<Route("GET", GroupBasePath \o <<Static(SegA)>>, "g2")>>, FALSE) }

RegistryUniverse ==
    {RouteItem(route) : route \in RegistryRoutes} \cup {GroupItem(group) : group \in RegistryGroups}

\* The key of an item in lastRouteIndex or lastGroupIndex.
ItemKey(item) ==
    IF item.kind = "group"
    THEN [map |-> "lastGroupIndex", method |-> "", path |-> item.group.basePath]
    ELSE [map |-> "lastRouteIndex", method |-> item.route.method, path |-> item.route.path]

\* The index the first pass leaves in the map under the key of items[index].
LastIndexFirst(items, index) ==
    CHOOSE i \in 1..Len(items) :
        /\ ItemKey(items[i]) = ItemKey(items[index])
        /\ \A j \in 1..Len(items) : ItemKey(items[j]) = ItemKey(items[index]) => j >= i

LastIndex(items, index) ==
    CHOOSE i \in 1..Len(items) :
        /\ ItemKey(items[i]) = ItemKey(items[index])
        /\ \A j \in 1..Len(items) : ItemKey(items[j]) = ItemKey(items[index]) => j <= i

\* The second pass over the first n items: the routes handed to addRoute
\* and the groups handed to addGroup, in the order of the items.
RECURSIVE AddedRoutes(_, _)
AddedRoutes(items, n) ==
    IF n = 0 THEN <<>>
    ELSE AddedRoutes(items, n - 1) \o
         (IF items[n].kind = "route" /\ LastIndex(items, n) = n THEN <<items[n].route>> ELSE <<>>)

RECURSIVE AddedGroups(_, _)
AddedGroups(items, n) ==
    IF n = 0 THEN <<>>
    ELSE AddedGroups(items, n - 1) \o
         (IF items[n].kind = "group" /\ LastIndex(items, n) = n THEN <<items[n].group>> ELSE <<>>)

\* globalRegistry.register(item)
Register(item) ==
    /\ ~built
    /\ builderRoutes = <<>>
    /\ builderGroups = <<>>
    /\ Len(registryItems) < MaxItems
    /\ registryItems' = Append(registryItems, item)
    /\ registered' = Append(registered, item)
    /\ returned' = Held(returned, registryItems')
    /\ UNCHANGED <<builderMiddlewares, builderRoutes, builderGroups>>
    /\ UNCHANGED <<groupMiddlewares, groupRoutes, finalRoutes>>
    /\ UNCHANGED <<trieVars, dispatchVars, streamVars, defineVars>>

RegisterItem == \E item \in RegistryUniverse : Register(item)

\* this.items itself, returned with no copy made.
getItemsNoCopy(items) == [held |-> TRUE, list |-> items, same |-> TRUE]

\* getItems(): [...this.items], a new array of the same items.
getItems(items) == [held |-> TRUE, list |-> items, same |-> FALSE]

\* const items = globalRegistry.getItems()
CallGetItems ==
    /\ returned' = getItems(registryItems)
    /\ UNCHANGED <<registryItems, registered>>
    /\ UNCHANGED <<builderMiddlewares, builderRoutes, builderGroups>>
    /\ UNCHANGED <<groupMiddlewares, groupRoutes, finalRoutes>>
    /\ UNCHANGED <<trieVars, dispatchVars, streamVars, defineVars>>

\* What a caller can do to the list it was handed.
ListOps == {"pop", "reverse", "length = 0"}

Mutated(list, op) ==
    CASE op = "pop" -> SubSeq(list, 1, Len(list) - 1)
      [] op = "reverse" -> [i \in 1..Len(list) |-> list[Len(list) + 1 - i]]
      [] OTHER -> <<>>

\* items.pop(), items.reverse(), items.length = 0 on the list handed out.
MutateReturned ==
    /\ returned.held
    /\ \E op \in ListOps :
          /\ Mutated(returned.list, op) # returned.list
          /\ returned' = [returned EXCEPT !.list = Mutated(returned.list, op)]
          /\ registryItems' = IF returned.same THEN Mutated(returned.list, op)
                                                ELSE registryItems
    /\ UNCHANGED registered
    /\ UNCHANGED <<builderMiddlewares, builderRoutes, builderGroups>>
    /\ UNCHANGED <<groupMiddlewares, groupRoutes, finalRoutes>>
    /\ UNCHANGED <<trieVars, dispatchVars, streamVars, defineVars>>

\* globalRegistry.clear(): this.items = [], a new array.
Clear ==
    /\ registryItems # <<>>
    /\ registryItems' = <<>>
    /\ registered' = <<>>
    /\ returned' = [returned EXCEPT !.same = FALSE]
    /\ UNCHANGED <<builderMiddlewares, builderRoutes, builderGroups>>
    /\ UNCHANGED <<groupMiddlewares, groupRoutes, finalRoutes>>
    /\ UNCHANGED <<trieVars, dispatchVars, streamVars, defineVars>>

\* new RouterBuilder(), in place of the builder before.
NewRouterBuilder ==
    /\ ~built
    /\ builderRoutes # <<>> \/ builderGroups # <<>>
    /\ builderRoutes' = <<>>
    /\ builderGroups' = <<>>
    /\ UNCHANGED <<builderMiddlewares, groupMiddlewares, groupRoutes, finalRoutes, registryVars>>
    /\ UNCHANGED <<trieVars, dispatchVars, streamVars, defineVars>>

\* The declarations of one module loaded twice and of another module.
ItemsUniverse ==
    { RouteItem(Route("GET", <<Static(SegA)>>, "v1")),
      RouteItem(Route("GET", <<Static(SegA)>>, "v2")),
      RouteItem(Route("GET", <<Static(Seg1)>>, "keep")) }

RegisterDeclared == \E item \in ItemsUniverse : Register(item)

\* new RouterBuilder().addRegistered()
AddRegistered ==
    /\ ~built
    /\ builderRoutes = <<>>
    /\ builderGroups = <<>>
    /\ registryItems # <<>>
    /\ builderRoutes' = AddedRoutes(registryItems, Len(registryItems))
    /\ builderGroups' = AddedGroups(registryItems, Len(registryItems))
    /\ UNCHANGED <<builderMiddlewares, groupMiddlewares, groupRoutes, finalRoutes, registryVars>>
    /\ UNCHANGED <<trieVars, dispatchVars, streamVars, defineVars>>

\* ---------------------------------------------------------------- createRouter
\* The names of the properties of an object handed to createRouter: the
\* keys of RouterOptions, and the path of a module of routes.
OptionKeys == {"basePath", "onNotFound", "debug", "onError"}

PropertyNames == OptionKeys \cup {"./routes.ts"}

\* An argument: an object with the properties of these names, or undefined.
Object(names) == [given |-> TRUE, names |-> names]

Absent == [given |-> FALSE, names |-> {}]

SegV == <<"v">>

\* The route a router is made to serve from the registry, and the one the
\* module ./routes.ts exports.
RThrows == Route("GET", <<Static(SegP), Param("id")>>, "throw")
RModule == Route("GET", <<Static(SegA)>>, "ok")

\* modulesOrOptions && !('basePath' in modulesOrOptions || 'onNotFound' in
\* modulesOrOptions || 'debug' in modulesOrOptions)
TakenAsModules(modulesOrOptions) ==
    /\ modulesOrOptions.given
    /\ modulesOrOptions.names \cap {"basePath", "onNotFound", "debug"} = {}

\* The modules and the options createRouter works with.
Arguments(modulesOrOptions, second) ==
    IF TakenAsModules(modulesOrOptions)
    THEN [modules |-> modulesOrOptions, finalOptions |-> second]
    ELSE [modules |-> Absent, finalOptions |-> modulesOrOptions]

\* new RouterBuilder(finalOptions), then defineRouter's reading of the
\* options: the base path is /api unless one is given (/v here).
BuilderOptions(finalOptions) ==
    RouterOptions("onError" \in finalOptions.names,
                  IF "basePath" \in finalOptions.names THEN <<SegV>> ELSE <<SegApi>>,
                  "onNotFound" \in finalOptions.names,
                  "debug" \in finalOptions.names)

\* builder.addModules(modules): the routes among the values of the object;
\* a function, a string or a boolean is passed over.
ModuleRoutes(modules) ==
    IF modules.given /\ "./routes.ts" \in modules.names THEN <<RModule>> ELSE <<>>

\* createRouter(modulesOrOptions, second)
CreateRouter(modulesOrOptions, second) ==
    /\ ~built
    /\ builderRoutes = <<>>
    /\ builderGroups = <<>>
    /\ LET args == Arguments(modulesOrOptions, second)
           routes == ModuleRoutes(args.modules) \o AddedRoutes(registryItems, Len(registryItems))
           groups == AddedGroups(registryItems, Len(registryItems))
           allRoutes == routes \o RoutesOfGroups(groups, Len(groups))
           final == [k \in DOMAIN allRoutes |->
                        [allRoutes[k] EXCEPT !.middlewares = builderMiddlewares \o @]]
           t == TrieOf(final, Len(final))
       IN /\ options' = BuilderOptions(args.finalOptions)
          /\ builderRoutes' = routes
          /\ builderGroups' = groups
          /\ finalRoutes' = final
          /\ trieNodes' = t.nodes
          /\ trieRegex' = t.regex
          /\ trieRoutes' = t.routes
    /\ built' = TRUE
    /\ UNCHANGED <<builderMiddlewares, groupMiddlewares, groupRoutes, registryVars, lastFind>>
    /\ UNCHANGED <<req, ctx, stateObjects, pc, chainIndex, frames, ret, trace, onErrorCalls,
                   response>>
    /\ UNCHANGED <<streamVars, defineVars>>

CreateRouterAny ==
    \E modulesOrOptions \in {Absent} \cup {Object(names) : names \in SUBSET PropertyNames},
       second \in {Absent, Object({"onError"})} :
          CreateRouter(modulesOrOptions, second)

\* Requests to the router createRouter has made.
CreatedRequests ==
    { Request(<<SegApi, SegP, Seg1>>, "GET", <<SearchParam("q", "x")>>),
      Request(<<SegV, SegP, Seg1>>, "GET", <<SearchParam("q", "x")>>),
      Request(<<SegApi, SegA>>, "GET", <<SearchParam("q", "x")>>),
      Request(<<SegApi, Seg1>>, "GET", <<SearchParam("q", "x")>>) }

ReceiveCreated == built /\ ReceiveFrom(1, CreatedRequests)

\* ---------------------------------------------------------------- streaming writers
\* The writer of stream() ("raw") and the writers of createJsonStreamRoute.
Modes == {"raw", "ndjson", "array"}

\* Texts are sequences of one-character strings.
SseChunk(chunk) == <<"s", "t", "a", "t", "e", ":", " ">> \o chunk \o <<"\n", "\n">>

\* Values handed to send: two numbers, undefined, and an object that
\* refers to itself.
Values == {"1", "2", "undefined", "circular"}

RawChunks == {<<"x">>}

\* JSON.stringify raises a TypeError for a circular structure.
StringifyThrowsNever(value) == FALSE

StringifyThrows(value) == value = "circular"

\* JSON.stringify(value) as the text that string concatenation makes of it:
\* JSON.stringify(undefined) is undefined, and undefined + '\n' is "undefined\n".
Stringify(value) ==
    CASE value = "1" -> <<"1">>
      [] value = "2" -> <<"2">>
      [] value = "undefined" -> <<"u", "n", "d", "e", "f", "i", "n", "e", "d">>
      [] OTHER -> <<"{", "}">>

Chunk(op, bytes) == [op |-> op, bytes |-> bytes]

\* enqueueArray(chunk)
EnqueueArrayComma(isFirst, json) == <<",">> \o json

EnqueueArray(isFirst, json) == IF isFirst THEN <<"[">> \o json ELSE <<",">> \o json

Call(op, raised) == [op |-> op, raised |-> raised]

NoCall == Call("none", FALSE)

\* if (closed) return, the first statement of close()
CloseGuardMissing == FALSE

CloseGuard == closed

\* No streaming response has been made.
StreamIdle ==
    /\ mode = "none"
    /\ controllerRef = "null"
    /\ closed = FALSE
    /\ first = TRUE
    /\ enqueued = <<>>
    /\ aborted = FALSE
    /\ listening = FALSE
    /\ producer = "none"
    /\ lastCall = NoCall

\* The route handler has returned the Response: start(controller) has set
\* controllerRef, registered onAbort and called the producer.
StreamStarted(m) ==
    /\ mode = m
    /\ controllerRef = "readable"
    /\ closed = FALSE
    /\ first = TRUE
    /\ enqueued = <<>>
    /\ aborted = FALSE
    /\ listening = TRUE
    /\ producer = "running"
    /\ lastCall = NoCall

\* controllerRef.enqueue(bytes) and controllerRef.close() raise a TypeError
\* on a stream that is closed or errored.
\* response.send(value)
Send(value) ==
    /\ mode \in {"ndjson", "array"}
    /\ closed \/ Len(enqueued) < MaxChunks
    /\ IF closed \/ controllerRef = "null"
       THEN /\ lastCall' = Call("send", FALSE)
            /\ UNCHANGED <<enqueued, first>>
       ELSE IF StringifyThrows(value) \/ controllerRef # "readable"
       THEN /\ lastCall' = Call("send", TRUE)
            /\ UNCHANGED <<enqueued, first>>
       ELSE LET json == Stringify(value)
                bytes == IF mode = "ndjson" THEN json \o <<"\n">> ELSE EnqueueArray(first, json)
            IN /\ enqueued' = Append(enqueued, Chunk("send", bytes))
               /\ first' = IF mode = "array" THEN FALSE ELSE first
               /\ lastCall' = Call("send", FALSE)
    /\ UNCHANGED <<mode, controllerRef, closed, aborted, listening, producer>>
    /\ UNCHANGED <<trieVars, dispatchVars, builderVars, defineVars>>

\* response.write(chunk)
Write(chunk) ==
    /\ mode \in Modes
    /\ closed \/ Len(enqueued) < MaxChunks
    /\ IF closed \/ controllerRef = "null"
       THEN /\ lastCall' = Call("write", FALSE)
            /\ UNCHANGED enqueued
       ELSE IF controllerRef # "readable"
       THEN /\ lastCall' = Call("write", TRUE)
            /\ UNCHANGED enqueued
       ELSE /\ enqueued' = Append(enqueued,
                                  Chunk("write", IF mode = "raw" THEN SseChunk(chunk) ELSE chunk))
            /\ lastCall' = Call("write", FALSE)
    /\ UNCHANGED <<mode, controllerRef, closed, first, aborted, listening, producer>>
    /\ UNCHANGED <<trieVars, dispatchVars, builderVars, defineVars>>

\* response.close()
Close ==
    /\ mode \in Modes
    /\ IF CloseGuard
       THEN /\ lastCall' = Call("close", FALSE)
            /\ UNCHANGED <<enqueued, closed, controllerRef>>
       ELSE IF mode = "raw"
       THEN /\ closed' = TRUE
            /\ controllerRef' = IF controllerRef = "readable" THEN "closed" ELSE controllerRef
            /\ lastCall' = Call("close", FALSE)
            /\ UNCHANGED enqueued
       ELSE IF mode = "array" /\ controllerRef # "null" /\ ~first /\ controllerRef # "readable"
       THEN /\ lastCall' = Call("close", TRUE)
            /\ UNCHANGED <<enqueued, closed, controllerRef>>
       ELSE /\ enqueued' = IF mode = "array" /\ controllerRef # "null" /\ ~first
                           THEN Append(enqueued, Chunk("close", <<"]">>))
                           ELSE enqueued
            /\ closed' = TRUE
            /\ controllerRef' = IF controllerRef = "readable" THEN "closed" ELSE controllerRef
            /\ lastCall' = Call("close", controllerRef \notin {"readable", "null"})
    /\ UNCHANGED <<mode, first, aborted, listening, producer>>
    /\ UNCHANGED <<trieVars, dispatchVars, builderVars, defineVars>>

\* The signal of the request aborts: onAbort runs if it is still registered.
Abort ==
    /\ mode \in Modes
    /\ ~aborted
    /\ aborted' = TRUE
    /\ IF listening
       THEN /\ closed' = TRUE
            /\ controllerRef' = IF controllerRef = "readable" THEN "closed" ELSE controllerRef
       ELSE UNCHANGED <<closed, controllerRef>>
    /\ listening' = FALSE
    /\ UNCHANGED <<mode, first, enqueued, producer, lastCall>>
    /\ UNCHANGED <<trieVars, dispatchVars, builderVars, defineVars>>

\* The promise of the producer settles: .catch errors the stream if the
\* producer rejected, .finally removes the abort listener.
Settle(rejected) ==
    /\ producer = "running"
    /\ producer' = IF rejected THEN "rejected" ELSE "resolved"
    /\ controllerRef' = IF rejected /\ controllerRef = "readable" THEN "errored" ELSE controllerRef
    /\ listening' = FALSE
    /\ UNCHANGED <<mode, closed, first, enqueued, aborted, lastCall>>
    /\ UNCHANGED <<trieVars, dispatchVars, builderVars, defineVars>>

\* The consumer cancels the body: the stream is closed ("cancelled" here, to
\* tell it from a stream closed by the controller) and cancel() of the
\* underlying source runs.
Cancel ==
    /\ mode \in Modes
    /\ controllerRef = "readable"
    /\ controllerRef' = "cancelled"
    /\ closed' = TRUE
    /\ UNCHANGED <<mode, first, enqueued, aborted, listening, producer, lastCall>>
    /\ UNCHANGED <<trieVars, dispatchVars, builderVars, defineVars>>

SendValue == \E value \in Values : Send(value)

WriteChunk == \E chunk \in RawChunks : Write(chunk)

SettleProducer == \E rejected \in BOOLEAN : Settle(rejected)

\* ---------------------------------------------------------------- route definition
\* The arguments of defineRoute(method, path, handler): the path is the text
\* made of its parts, with or without the '/' in front.
Declaration(method, lead, path, handler) ==
    [method |-> method, lead |-> lead, path |-> path, handler |-> handler]

\* GET /p/**, GET /**/p, GET /**/p/**, GET p/1, TRACE /p and GET /p/:id.
Declarations ==
    { Declaration("GET", TRUE, <<Static(SegP), CatchAll>>, "tail"),
      Declaration("GET", TRUE, <<CatchAll, Static(SegP)>>, "middle"),
      Declaration("GET", TRUE, <<CatchAll, Static(SegP), CatchAll>>, "twice"),
      Declaration("GET", FALSE, <<Static(SegP), Static(Seg1)>>, "relative"),
      Declaration("TRACE", TRUE, <<Static(SegP)>>, "trace"),
      Declaration("GET", TRUE, <<Static(SegP), Param("id")>>, "id") }

\* The text of a part of a path; a name or a regex source stands as one
\* character, it holds neither '*' nor '/'.
PartText(ps) ==
    CASE ps.k = "S" -> ps.lit
      [] ps.k = "R" -> <<":", ps.name, "(", ps.re, ")">>
      [] ps.k = "P" -> <<":", ps.name>>
      [] ps.k = "W" -> <<"*">>
      [] OTHER -> <<"*", "*">>

RECURSIVE JoinParts(_, _)
JoinParts(path, n) ==
    IF n = 0 THEN <<>>
    ELSE IF n = 1 THEN PartText(path[1])
    ELSE JoinParts(path, n - 1) \o <<"/">> \o PartText(path[n])

PathText(decl) ==
    (IF decl.lead THEN <<"/">> ELSE <<>>) \o JoinParts(decl.path, Len(decl.path))

\* path.includes('**')
IncludesStars(text) == \E i \in 1..(Len(text) - 1) : text[i] = "*" /\ text[i + 1] = "*"

\* path.endsWith('**')
EndsWithStars(text) == Len(text) >= 2 /\ text[Len(text) - 1] = "*" /\ text[Len(text)] = "*"

\* validateRoute(route): the message of the Error it throws, "" for none.
validateRoute(decl) ==
    LET path == PathText(decl)
    IN IF ~StartsWith(path, <<"/">>) THEN "Route path must start with '/'"
       ELSE IF decl.method \notin ALLOWED_HTTP_METHODS THEN "Unsupported HTTP method in route"
       ELSE IF IncludesStars(path) /\ ~EndsWithStars(path)
            THEN "Catch-all '**' is only allowed at the end of a path"
       ELSE ""

Defined(decl, auto, message, route) ==
    [called |-> TRUE, decl |-> decl, auto |-> auto, message |-> message, route |-> route]

NoDefine ==
    [called |-> FALSE, decl |-> Declaration("", FALSE, <<>>, ""), auto |-> FALSE,
     message |-> "", route |-> NoRoute]

DefineIdle == lastDefine = NoDefine

\* defineRoute(method, path, handler, autoRegister)
DefineRoute(decl, auto) ==
    /\ ~built
    /\ Len(registryItems) < MaxItems
    /\ LET message == validateRoute(decl)
           route == Route(decl.method, decl.path, decl.handler)
       IN IF message # ""
          THEN /\ lastDefine' = Defined(decl, auto, message, NoRoute)
               /\ UNCHANGED registryVars
          ELSE /\ lastDefine' = Defined(decl, auto, "", route)
               /\ registryItems' = IF auto THEN Append(registryItems, RouteItem(route))
                                           ELSE registryItems
               /\ registered' = IF auto THEN Append(registered, RouteItem(route))
                                        ELSE registered
               /\ returned' = Held(returned, registryItems')
    /\ UNCHANGED <<builderMiddlewares, builderRoutes, builderGroups>>
    /\ UNCHANGED <<groupMiddlewares, groupRoutes, finalRoutes>>
    /\ UNCHANGED <<trieVars, dispatchVars, streamVars>>

DefineAny == \E decl \in Declarations, auto \in BOOLEAN : DefineRoute(decl, auto)

\* The route that defineRoute returned is handed to the router.
InsertDefined ==
    /\ lastDefine.called
    /\ lastDefine.route # NoRoute
    /\ Insert(lastDefine.route)

\* ---------------------------------------------------------------- specifications
vars == <<trieVars, dispatchVars, builderVars, streamVars, defineVars>>

\* A trie under construction and the lookups on it once it is complete.
Init == TrieInit /\ DispatchIdle /\ BuilderIdle /\ StreamIdle /\ DefineIdle

Next == InsertRoute \/ FinishBuild \/ FindPath \/ ReturnMatch

Spec == Init /\ [][Next]_vars

\* A trie that receives routes of the same structure one after the other.
NextRenamed == InsertRenamed \/ FinishBuild \/ FindPath \/ ReturnMatch

SpecRenamed == Init /\ [][NextRenamed]_vars

\* A trie of routes written with trailing and repeated slashes, and lookups
\* of paths written with them.
NextSlashed == InsertSlashed \/ FinishBuild \/ FindSlashed \/ ReturnMatch

SpecSlashed == Init /\ [][NextSlashed]_vars

\* A trie of capturing routes and lookups of escaped paths.
NextEncoded == InsertCapturing \/ FinishBuild \/ FindEncoded \/ ReturnMatch

SpecEncoded == Init /\ [][NextEncoded]_vars

\* A trie of routes with '*' segments and lookups of paths of up to four parts.
NextWild == InsertWild \/ FinishBuild \/ FindWild \/ ReturnMatch

SpecWild == Init /\ [][NextWild]_vars

\* A trie of routes that share the branches of their first segment.
NextBacktrack == InsertBranching \/ FinishBuild \/ FindBranching \/ ReturnMatch

SpecBacktrack == Init /\ [][NextBacktrack]_vars

\* A trie of routes that end at a node and at its '**' child.
NextExact == InsertExact \/ FinishBuild \/ FindExact \/ ReturnMatch

SpecExact == Init /\ [][NextExact]_vars

\* Tries of the same routes inserted in every order.
NextOrder == InsertAdmissible \/ FinishBuild \/ FindOrdered \/ InsertAgain \/ ReturnMatch

SpecOrder == Init /\ [][NextOrder]_vars

\* A router made by defineRouter of the routes of DispatchTable, and the
\* requests it serves.
InitDispatch ==
    /\ \E chain \in Chains, h \in HandlerKinds, onError \in BOOLEAN :
          LET table == DispatchTable(chain, h)
              t == TrieOf(table, Len(table))
          IN /\ trieNodes = t.nodes
             /\ trieRegex = t.regex
             /\ trieRoutes = t.routes
             /\ options = RouterOptions(onError, <<SegApi>>, FALSE, FALSE)
    /\ built = TRUE
    /\ lastFind = NoFind
    /\ RequestsIdle
    /\ BuilderIdle
    /\ StreamIdle
    /\ DefineIdle

NextDispatch ==
    \/ ReceiveRequest
    \/ RunMiddleware
    \/ RunHandler
    \/ ResumeHandler
    \/ ResumeMiddleware
    \/ CompleteChain
    \/ CatchError
    \/ SendResponse

SpecDispatch == InitDispatch /\ [][NextDispatch]_vars

\* The same router called by a host that supplies params of its own.
InitHost ==
    /\ \E chain \in {<<>>, <<"pass">>, <<"pass", "pass">>}, h \in HandlerKinds,
          onError \in BOOLEAN :
          LET table == DispatchTable(chain, h)
              t == TrieOf(table, Len(table))
          IN /\ trieNodes = t.nodes
             /\ trieRegex = t.regex
             /\ trieRoutes = t.routes
             /\ options = RouterOptions(onError, <<SegApi>>, FALSE, FALSE)
    /\ built = TRUE
    /\ lastFind = NoFind
    /\ RequestsIdle
    /\ BuilderIdle
    /\ StreamIdle
    /\ DefineIdle

NextHost ==
    \/ PrepareContext
    \/ ReceiveHostedRequest
    \/ RunMiddleware
    \/ RunHandler
    \/ ResumeHandler
    \/ ResumeMiddleware
    \/ CompleteChain
    \/ CatchError
    \/ SendResponse

SpecHost == InitHost /\ [][NextHost]_vars

\* GET /p/:id, whose handler throws, is in the registry; createRouter makes
\* the router, which is then called.
InitCreate ==
    /\ TrieInit /\ DispatchIdle /\ StreamIdle /\ DefineIdle
    /\ builderMiddlewares = <<>>
    /\ builderRoutes = <<>>
    /\ builderGroups = <<>>
    /\ groupMiddlewares = <<>>
    /\ groupRoutes = <<>>
    /\ finalRoutes = <<>>
    /\ registryItems = <<RouteItem(RThrows)>>
    /\ registered = <<RouteItem(RThrows)>>
    /\ returned = NoList

NextCreate ==
    \/ CreateRouterAny
    \/ ReceiveCreated
    \/ RunHandler
    \/ ResumeHandler
    \/ CompleteChain
    \/ CatchError
    \/ SendResponse

SpecCreate == InitCreate /\ [][NextCreate]_vars

\* The same router with a middleware in its chain that calls next() twice.
TwiceChains == {<<"twice">>, <<"twice", "pass">>, <<"pass", "twice">>, <<"twice", "short">>}

TwiceRequests == { Request(<<SegApi, SegP, Seg1>>, "GET", <<SearchParam("q", "x")>>) }

ReceiveTwice == \E r \in RequestIds : ReceiveFrom(r, TwiceRequests)

InitTwice ==
    /\ \E chain \in TwiceChains, h \in HandlerKinds, onError \in BOOLEAN :
          LET table == DispatchTable(chain, h)
              t == TrieOf(table, Len(table))
          IN /\ trieNodes = t.nodes
             /\ trieRegex = t.regex
             /\ trieRoutes = t.routes
             /\ options = RouterOptions(onError, <<SegApi>>, FALSE, FALSE)
    /\ built = TRUE
    /\ lastFind = NoFind
    /\ RequestsIdle
    /\ BuilderIdle
    /\ StreamIdle
    /\ DefineIdle

NextTwice ==
    \/ ReceiveTwice
    \/ RunMiddleware
    \/ RunHandler
    \/ ResumeHandler
    \/ ResumeMiddleware
    \/ CompleteChain
    \/ CatchError
    \/ SendResponse

SpecTwice == InitTwice /\ [][NextTwice]_vars

\* A builder and a group from their construction to build().
InitBuild == TrieInit /\ DispatchIdle /\ BuilderIdle /\ StreamIdle /\ DefineIdle

NextBuild == BuilderUse \/ GroupUse \/ GroupAdd \/ BuilderAdd \/ AddGroup \/ Build

SpecBuild == InitBuild /\ [][NextBuild]_vars

\* A builder and its group that are given routes of the same method and path.
NextSame == AddGroup \/ BuilderAddSame \/ GroupAddSame \/ Build

SpecSame == InitBuild /\ [][NextSame]_vars

\* The registry filled by the modules of the application, then a builder
\* that takes the registered items and builds the router.
InitRegistry == TrieInit /\ DispatchIdle /\ BuilderIdle /\ StreamIdle /\ DefineIdle

NextRegistry == RegisterItem \/ AddRegistered \/ Build

SpecRegistry == InitRegistry /\ [][NextRegistry]_vars

\* The registry between the loads of modules, its callers and its clears.
NextItems ==
    \/ RegisterDeclared
    \/ CallGetItems
    \/ MutateReturned
    \/ AddRegistered
    \/ NewRouterBuilder
    \/ Clear

SpecItems == InitRegistry /\ [][NextItems]_vars

\* Routes are declared with defineRoute and those it returns are inserted.
InitDefine == TrieInit /\ DispatchIdle /\ BuilderIdle /\ StreamIdle /\ DefineIdle

NextDefine == DefineAny \/ InsertDefined

SpecDefine == InitDefine /\ [][NextDefine]_vars

\* A streaming response from the start of its body to its end.
InitStream ==
    /\ TrieInit /\ DispatchIdle /\ BuilderIdle /\ DefineIdle
    /\ \E m \in Modes : StreamStarted(m)

NextStream == SendValue \/ WriteChunk \/ Close \/ Abort \/ SettleProducer \/ Cancel

SpecStream == InitStream /\ [][NextStream]_vars

\* ---------------------------------------------------------------- route trie claims
\* The values find() has captured on the way to a node: the segments under
\* its parameter edges.
CapturedAt(node, segs) ==
    [d \in {e \in 1..Len(node) : node[e].k = "P"} |-> segs[d]]

\* The strategies that can match segs[index] at a node, in the order
\* Static > Regex > Param > Wildcard > Catch-all.
Candidates(node, segs, index) ==
    LET seg == segs[index]
        one(kind, child) == IF child \in trieNodes
                            THEN <<[kind |-> kind, child |-> child]>> ELSE <<>>
        rcs == SelectSeq(trieRegex[node], LAMBDA rc : RegexTest(rc.re, seg))
    IN one("static", Append(node, Static(seg)))
       \o [j \in 1..Len(rcs) |->
              [kind |-> "regex", child |-> Append(node, Regex(rcs[j].name, rcs[j].re))]]
       \o one("param", Append(node, ParamEdge))
       \o one("wildcard", Append(node, Wildcard))
       \o one("catchall", Append(node, CatchAll))

\* The route a strategy leads to for the method, NoRoute when it leads to none.
RouteVia(c, node, segs, index, method) ==
    LET cap == CapturedAt(node, segs)
    IN CASE c.kind = "catchall" ->
               IF Decodable(JoinSlash(segs, index))
               THEN RoutesGet(c.child, method).route ELSE NoRoute
         [] c.kind = "regex" ->
               IF Decodable(segs[index])
               THEN MatchNode(c.child, segs, index + 1, method, cap).route ELSE NoRoute
         [] c.kind = "param" ->
               MatchNode(c.child, segs, index + 1, method, (index :> segs[index]) @@ cap).route
         [] OTHER -> MatchNode(c.child, segs, index + 1, method, cap).route

PriorityAt(node, segs, index, method, found) ==
    LET cs == Candidates(node, segs, index)
    IN (Len(cs) >= 1 /\ \A j \in 1..Len(cs) : RouteVia(cs[j], node, segs, index, method) # NoRoute)
       => found = RouteVia(cs[1], node, segs, index, method)

PriorityTable == {RStatic, RRegex, RParam, RWild, RCatch}

GetRoutes == {r \in Registered : r.method = "GET"}

\* C1: when every strategy that can match a segment at a node leads to a route
\* for the method, find returns the route of the first of them in the order
\* Static > Regex > Param > Wildcard > Catch-all; with /p/p, /p/:id(\d+), /p/:id,
\* /p/* and /** registered, /p/p is the static route, /p/1 the regex route,
\* /p/a the param route and /a/a the catch-all route.
C1_Priority ==
    lastFind.called =>
        LET segs == Segmentize(lastFind.parts)
            m == lastFind.method
            res == lastFind.result
        IN /\ Len(segs) >= 1 => PriorityAt(Root, segs, 1, m, res.route)
           /\ \A node \in trieNodes \ {Root} :
                (Len(node) < Len(segs) /\ node[Len(node)].k # "C")
                    => PriorityAt(node, segs, Len(node) + 1, m,
                          MatchNode(node, segs, Len(node) + 1, m, CapturedAt(node, segs)).route)
           /\ (GetRoutes = PriorityTable /\ m = "GET") =>
                /\ segs = <<SegP, SegP>> => res.route = RStatic
                /\ segs = <<SegP, Seg1>> => res.route = RRegex
                /\ segs = <<SegP, SegA>> => res.route = RParam
                /\ segs = <<SegA, SegA>> => res.route = RCatch

C1_Witness ==
    /\ lastFind.called
    /\ Registered = PriorityTable
    /\ lastFind.method = "GET"
    /\ lastFind.parts = <<SegP, Seg1>>
    /\ Len(Candidates(<<Static(SegP)>>, lastFind.parts, 2)) = 3
    /\ lastFind.result.route = RRegex

\* C2: whenever find returns a route, its params bind every :name of the
\* route's pattern to the percent-decoded segment at the same depth.
C2_ParamsBound ==
    (lastFind.called /\ lastFind.result.route # NoRoute) =>
        LET segs == Segmentize(lastFind.parts)
            r == lastFind.result.route
        IN \A d \in 1..Len(r.path) :
              (r.path[d].k = "P" /\ Decodable(segs[d])) =>
                  /\ r.path[d].name \in DOMAIN lastFind.result.params
                  /\ lastFind.result.params[r.path[d].name] = DecodeURIComponent(segs[d])

\* The methods that match the path: find returns their route, or raises the
\* URIError of a malformed escape while decoding what their route captured.
MatchingMethods(parts) ==
    {m \in Methods : Find(parts, m).route # NoRoute \/ Find(parts, m).err}

SeqToSet(q) == {q[i] : i \in 1..Len(q)}

\* C3: the allowed list of a method-not-allowed outcome holds exactly the
\* methods that match the same path.
C3_AllowedExact ==
    (lastFind.called /\ ~lastFind.result.err /\ lastFind.result.route = NoRoute
        /\ Len(lastFind.result.allowed) > 0)
        => SeqToSet(lastFind.result.allowed) = MatchingMethods(lastFind.parts)

\* A pattern segment accepts a URL segment.
SegMatches(ps, seg) ==
    CASE ps.k = "S" -> seg = ps.lit
      [] ps.k = "R" -> RegexTest(ps.re, seg)
      [] OTHER -> TRUE

EndsInCatchAll(pattern) == Len(pattern) > 0 /\ pattern[Len(pattern)].k = "C"

\* The URL consists of segments the pattern accepts one by one, followed,
\* under a trailing '**', by zero or more further segments.
PatternMatches(pattern, segs) ==
    IF EndsInCatchAll(pattern)
    THEN /\ Len(segs) >= Len(pattern) - 1
         /\ \A i \in 1..(Len(pattern) - 1) : SegMatches(pattern[i], segs[i])
    ELSE /\ Len(segs) = Len(pattern)
         /\ \A i \in 1..Len(pattern) : SegMatches(pattern[i], segs[i])

\* The segments from 'from' on, each percent-decoded, joined by '/'.
RECURSIVE JoinDecoded(_, _)
JoinDecoded(segs, from) ==
    IF from > Len(segs) THEN <<>>
    ELSE IF from = Len(segs) THEN DecodeURIComponent(segs[from])
    ELSE DecodeURIComponent(segs[from]) \o <<"/">> \o JoinDecoded(segs, from + 1)

\* C4: a route ending in '**' matches its prefix followed by zero or more
\* segments (it is the route find returns when no other registered pattern
\* covers the URL), and params['*'] is "" for zero remaining segments and the
\* remaining segments joined by '/' otherwise.
C4_CatchAll ==
    lastFind.called =>
        LET segs == Segmentize(lastFind.parts)
            res == lastFind.result
        IN /\ (res.route # NoRoute /\ EndsInCatchAll(res.route.path)) =>
                /\ "*" \in DOMAIN res.params
                /\ res.params["*"] = JoinDecoded(segs, Len(res.route.path))
           /\ \A r \in Registered :
                (/\ EndsInCatchAll(r.path)
                 /\ r.method = lastFind.method
                 /\ PatternMatches(r.path, segs)
                 /\ \A i \in 1..Len(segs) : Decodable(segs[i])
                 /\ \A o \in Registered \ {r} : ~PatternMatches(o.path, segs))
                    => res.route = r

C4_Witness ==
    /\ lastFind.called
    /\ lastFind.parts = <<SegA, SegEnc>>
    /\ lastFind.result.route = RCatch
    /\ lastFind.result.params["*"] = <<"a", "/", "p">>

\* ---------------------------------------------------------------- chain claims
\* The requests that were matched to a route, and the chain of that route.
InChain(r) == RouteOf(r) # NoRoute

ChainOf(r) == RouteOf(r).middlewares

\* What ran, in order: the events without what they saw.
Ran(tr) == [k \in 1..Len(tr) |-> <<tr[k].ev, tr[k].i>>]

Raised(tr) == {k \in 1..Len(tr) : tr[k].ev = "throw"}

\* No step of the chain ran twice.
NoRerun(tr) == \A a, b \in 1..Len(tr) : a # b => Ran(tr)[a] # Ran(tr)[b]

IsPrefix(s, t) == Len(s) <= Len(t) /\ s = SubSeq(t, 1, Len(s))

\* C5: when a middleware returns without calling next(), no later middleware
\* and not the handler runs for the request; its return value (as a Response)
\* is what the next() that entered it resolves to, and it is the response of
\* every request that ends without a throw.
C5_ShortCircuit ==
    \A r \in RequestIds :
        InChain(r) =>
            \A k \in 1..Len(trace[r]) :
                LET e == trace[r][k]
                IN (e.ev = "pre" /\ ChainOf(r)[e.i + 1] = "short") =>
                      /\ \A l \in 1..Len(trace[r]) :
                            /\ trace[r][l].ev \notin {"h", "h2"}
                            /\ trace[r][l].i <= e.i
                      /\ (k = Len(trace[r]) /\ pc[r] = "ret")
                            => ret[r] = toAstroResponse(ShortValue(e.i))
                      /\ (pc[r] = "done" /\ Raised(trace[r]) = {})
                            => response[r] = toAstroResponse(ShortValue(e.i))

C5_Witness ==
    \E r \in RequestIds :
        /\ pc[r] = "done"
        /\ InChain(r)
        /\ ChainOf(r) = <<"pass", "short">>
        /\ Ran(trace[r]) = << <<"pre", 0>>, <<"pre", 1>>, <<"post", 0>> >>
        /\ response[r] = NewResponse(401, <<"short1">>, <<>>)

\* The trace of a chain of n middlewares that all await next() once, around a
\* handler that reads the context before and after its await.
Onion(n) ==
    [k \in 1..(2 * n + 2) |->
        IF k <= n THEN <<"pre", k - 1>>
        ELSE IF k = n + 1 THEN <<"h", n>>
        ELSE IF k = n + 2 THEN <<"h2", n>>
        ELSE <<"post", 2 * n + 2 - k>>]

\* C6: when every middleware of the chain awaits next() once, what has run is
\* at every moment a prefix of pre(m1), ..., pre(mn), h, post(mn), ..., post(m1),
\* and it is all of it once the request ends without a throw.
C6_OnionOrder ==
    \A r \in RequestIds :
        (InChain(r) /\ \A j \in 1..Len(ChainOf(r)) : ChainOf(r)[j] = "pass") =>
            LET ran == Ran(SelectSeq(trace[r], LAMBDA e : e.ev # "throw"))
                onion == Onion(Len(ChainOf(r)))
            IN /\ IsPrefix(ran, onion)
               /\ (pc[r] = "done" /\ Raised(trace[r]) = {}) => ran = onion

C6_Witness ==
    \E r \in RequestIds :
        /\ pc[r] = "done"
        /\ InChain(r)
        /\ ChainOf(r) = <<"pass", "pass">>
        /\ Ran(trace[r]) = << <<"pre", 0>>, <<"pre", 1>>, <<"h", 2>>, <<"h2", 2>>,
                              <<"post", 1>>, <<"post", 0>> >>
        /\ response[r].status = 200

\* The route of a final route's chain as the spec orders it: the global
\* middlewares, the group's, the route's own, the handler.
ExpectedChain(route) ==
    builderMiddlewares
        \o (IF route.handler = "group" THEN groupMiddlewares ELSE <<>>)
        \o SelectSeq(route.middlewares, LAMBDA m : m.scope = "route")
        \o <<Mw("handler", 0)>>

\* C7: the chain of every route of a built router runs the global middlewares,
\* then the middlewares of the route's group, then the route's own, then the
\* handler, whatever the order of the calls that made the router.
C7_ChainOrder ==
    built => \A route \in Registered : ExecutedChain(route) = ExpectedChain(route)

\* The params, the query and the state a request's code is to see at the k-th
\* event of its trace: what its own URL holds and what its own middlewares
\* have written until then.
OwnParams(rq) ==
    LET path == Segmentize(StripBasePath(<<SegApi>>, rq.parts).path)
    IN IF Len(path) = 2 /\ path[1] = SegP
       THEN "id" :> DecodeURIComponent(path[2])
       ELSE <<>>

OwnQuery(rq) ==
    LET values == [k \in 1..Len(rq.search) |-> rq.search[k].value]
    IN IF values = <<>> THEN <<>>
       ELSE "q" :> (IF Len(values) = 1 THEN QueryString(values[1]) ELSE QueryArray(values))

OwnState(r, k) ==
    LET wrote == {trace[r][l].i : l \in {m \in 1..Len(trace[r]) :
                                           /\ trace[r][m].ev = "pre"
                                           /\ m < k}}
    IN [i \in wrote |-> TokenOf(req[r])]

\* C8: whatever the interleaving of two requests, what the middlewares and the
\* handler of a request see in its context is the params of its own URL, its
\* own query and the state its own middlewares have written.
C8_NoLeak ==
    \A r \in RequestIds :
        \A k \in 1..Len(trace[r]) :
            /\ trace[r][k].seen.params = OwnParams(req[r])
            /\ trace[r][k].seen.query = OwnQuery(req[r])
            /\ trace[r][k].seen.state = OwnState(r, k)

C8_Witness ==
    /\ pc[1] = "handlerAwait"
    /\ pc[2] = "handlerAwait"
    /\ RouteOf(1) = RouteOf(2)
    /\ Len(ChainOf(1)) = 2
    /\ trace[1][3].seen.params = ("id" :> <<"1">>)
    /\ trace[2][3].seen.params = ("id" :> <<"p">>)
    /\ trace[1][3].seen.state = (0 :> "x") @@ (1 :> "x")
    /\ trace[2][3].seen.state = (0 :> "y") @@ (1 :> "y")

\* C9: with an error producer in the options, the throw of a middleware or of
\* the handler is the last thing the chain does; onError is called once, with
\* the thrown error and the request's context, its result is the response,
\* and no step of the chain runs twice.
C9_OnErrorOnce ==
    \A r \in RequestIds :
        /\ Len(onErrorCalls[r]) <= 1
        /\ Cardinality(Raised(trace[r])) <= 1
        /\ (~options.onError \/ pc[r] # "done" \/ Raised(trace[r]) = {})
              => onErrorCalls[r] = <<>>
        /\ \A k \in Raised(trace[r]) :
              /\ k = Len(trace[r])
              /\ NoRerun(trace[r])
              /\ (options.onError /\ pc[r] = "done") =>
                    /\ onErrorCalls[r] = <<[err |-> ThrownBy(trace[r][k].i), ctx |-> r]>>
                    /\ response[r] = toAstroResponse(OnError(ThrownBy(trace[r][k].i), r))

C9_Witness ==
    \E r \in RequestIds :
        /\ options.onError
        /\ pc[r] = "done"
        /\ ChainOf(r) = <<"pass", "throwPost">>
        /\ Ran(trace[r]) = << <<"pre", 0>>, <<"pre", 1>>, <<"h", 2>>, <<"h2", 2>>,
                              <<"post", 1>>, <<"throw", 1>> >>
        /\ Len(onErrorCalls[r]) = 1
        /\ response[r] = NewResponse(500, <<"caught", "thrown1">>, <<>>)

\* C10: without an error producer, the throw of a middleware or of the handler
\* ends the request with a Response of status 500 whose body is the error's
\* message (no fixed text of its own); the host gets that Response, not the
\* error, and no step of the chain runs again.
C10_DefaultError ==
    \A r \in RequestIds :
        \A k \in Raised(trace[r]) :
            (~options.onError /\ pc[r] = "done") =>
                /\ response[r] = NewResponse(500, <<ThrownBy(trace[r][k].i).message>>, <<>>)
                /\ onErrorCalls[r] = <<>>
                /\ k = Len(trace[r])
                /\ NoRerun(trace[r])

C10_Witness ==
    \E r \in RequestIds :
        /\ ~options.onError
        /\ pc[r] = "done"
        /\ RouteOf(r).handler = "throw"
        /\ ChainOf(r) = <<"pass">>
        /\ Ran(trace[r]) = << <<"pre", 0>>, <<"h", 1>>, <<"h2", 1>>, <<"throw", 1>> >>
        /\ response[r] = NewResponse(500, <<"thrown1">>, <<>>)

\* ---------------------------------------------------------------- registry claims
\* The builder has taken the registered items and built the router.
Taken == built /\ (builderRoutes # <<>> \/ builderGroups # <<>>)

\* No later item of the registry has the key of item i.
Selected(i) ==
    \A j \in (i + 1)..Len(registryItems) : ItemKey(registryItems[j]) # ItemKey(registryItems[i])

RegisteredOnce(i) ==
    \A j \in 1..Len(registryItems) : j # i => ItemKey(registryItems[j]) # ItemKey(registryItems[i])

DeclaredRoutes(item) ==
    IF item.kind = "route" THEN {item.route} ELSE SeqToSet(item.group.routes)

\* Some URL is dispatched to the route.
Reachable(route) == \E parts \in RequestPaths : Find(parts, route.method).route = route

\* The builder holds, in registry order, exactly the items that no later item
\* shares the key of.
SelectsLast ==
    /\ SeqToSet(builderRoutes) =
          {registryItems[i].route : i \in {k \in 1..Len(registryItems) :
                                             registryItems[k].kind = "route" /\ Selected(k)}}
    /\ SeqToSet(builderGroups) =
          {registryItems[i].group : i \in {k \in 1..Len(registryItems) :
                                             registryItems[k].kind = "group" /\ Selected(k)}}
    /\ Len(builderRoutes) = Cardinality(SeqToSet(builderRoutes))
    /\ Len(builderGroups) = Cardinality(SeqToSet(builderGroups))
    /\ \A a, b \in 1..Len(builderRoutes) :
          a < b => \E i, j \in 1..Len(registryItems) :
                      /\ i < j
                      /\ registryItems[i] = RouteItem(builderRoutes[a])
                      /\ registryItems[j] = RouteItem(builderRoutes[b])

\* A later route of the built list has the method and the trie node of
\* finalRoutes[k], so its insert replaces the entry of finalRoutes[k].
Replaced(k) ==
    \E l \in (k + 1)..Len(finalRoutes) :
        /\ finalRoutes[l].method = finalRoutes[k].method
        /\ NodeAt(finalRoutes[l].path, WalkLen(finalRoutes[l].path)) =
              NodeAt(finalRoutes[k].path, WalkLen(finalRoutes[k].path))

\* C11 as stated: addRegistered selects per key the declaration with the
\* highest index, a method+path registered twice is dispatched to the second
\* definition, and every declaration whose key was registered once is reachable.
C11_LastWinsAllReachable ==
    Taken =>
        /\ SelectsLast
        /\ \A i \in 1..Len(registryItems) :
              (registryItems[i].kind = "route" /\ Selected(i) /\ ~RegisteredOnce(i))
                  => Reachable(registryItems[i].route)
        /\ \A i \in 1..Len(registryItems) :
              RegisteredOnce(i) => \A route \in DeclaredRoutes(registryItems[i]) : Reachable(route)

\* C11, amended: addRegistered hands the builder per key exactly the
\* declaration with the highest index; the built list holds the routes of
\* every selected declaration and of no other, and a route of the list is in
\* the trie unless a later route of the list has its method and trie node.
C11_LastWins ==
    Taken =>
        /\ SelectsLast
        /\ SeqToSet(finalRoutes) =
              UNION {DeclaredRoutes(registryItems[i]) :
                        i \in {k \in 1..Len(registryItems) : Selected(k)}}
        /\ \A k \in 1..Len(finalRoutes) : ~Replaced(k) <=> finalRoutes[k] \in Registered
        /\ \A k \in 1..Len(finalRoutes) :
              (finalRoutes[k].path = <<Static(SegA)>> /\ ~Replaced(k))
                  => Find(<<SegA>>, "GET").route = finalRoutes[k]

\* GET /a registered as v1 and again as v2 with GET /1 between them: the
\* router answers /a with v2 and /1 with keep.
C11_Witness ==
    /\ Taken
    /\ Len(registryItems) = 3
    /\ registryItems[1].route.handler = "v1"
    /\ registryItems[2].route.handler = "keep"
    /\ registryItems[3].route.handler = "v2"
    /\ Find(<<SegA>>, "GET").route.handler = "v2"
    /\ Find(<<Seg1>>, "GET").route.handler = "keep"

\* ---------------------------------------------------------------- insert order claims
\* A URL of the route's pattern: the literal of a static segment, a digit for
\* a regex segment, a letter for a named one.
UrlOf(route) ==
    [d \in 1..Len(route.path) |->
        CASE route.path[d].k = "S" -> route.path[d].lit
          [] route.path[d].k = "R" -> Seg1
          [] OTHER -> SegA]

\* find on a URL of the route returns the route, its parameters bound under
\* the route's own names.
FoundWithOwnNames(route) ==
    LET match == Find(UrlOf(route), route.method)
    IN /\ match.route = route
       /\ \A d \in 1..Len(route.path) :
             route.path[d].k \in {"P", "R"} =>
                 /\ route.path[d].name \in DOMAIN match.params
                 /\ match.params[route.path[d].name] = UrlOf(route)[d]

\* C12: after an insert, find on the structural path of the inserted route
\* returns that route (the last insert for the method and structural path) with
\* the parameters bound under its names.
C12_LastInsertWins ==
    [][\A route \in RenamedUniverse : Insert(route) => FoundWithOwnNames(route)']_vars

Sent == Cardinality({i \in 1..Len(enqueued) : enqueued[i].op = "send"})

\* C14: in array mode the first send enqueues '[' and the value, every later
\* send ',' and the value, and close() on the open stream enqueues ']' if and
\* only if a send has enqueued something; a second close() enqueues nothing.
C14_ArrayFraming ==
    [][mode = "array" =>
          /\ \A value \in Values :
                (Send(value) /\ enqueued' # enqueued) =>
                    enqueued' = Append(enqueued,
                        Chunk("send", (IF Sent = 0 THEN <<"[">> ELSE <<",">>) \o Stringify(value)))
          /\ (Close /\ ~closed /\ controllerRef = "readable") =>
                enqueued' = IF Sent >= 1 THEN Append(enqueued, Chunk("close", <<"]">>))
                                         ELSE enqueued
          /\ (Close /\ closed) => enqueued' = enqueued]_vars

\* send(1), send(2), close(): the chunks are [1 and ,2 and ].
C14_Witness ==
    /\ mode = "array"
    /\ closed
    /\ enqueued = <<Chunk("send", <<"[", "1">>), Chunk("send", <<",", "2">>),
                    Chunk("close", <<"]">>)>>

\* The text of the body: the chunks one after the other.
RECURSIVE Text(_, _)
Text(chunks, n) == IF n = 0 THEN <<>> ELSE Text(chunks, n - 1) \o chunks[n].bytes

IsJsonNumber(t) == Len(t) >= 1 /\ \A i \in 1..Len(t) : t[i] \in Digits

\* t is one or more JSON values separated by commas.
RECURSIVE IsJsonItems(_)
IsJsonItems(t) ==
    LET commas == {i \in 1..Len(t) : t[i] = ","}
    IN IF commas = {} THEN IsJsonNumber(t)
       ELSE LET c == CHOOSE i \in commas : \A j \in commas : i <= j
            IN /\ IsJsonNumber(SubSeq(t, 1, c - 1))
               /\ IsJsonItems(SubSeq(t, c + 1, Len(t)))

IsJsonArray(t) ==
    /\ Len(t) >= 2
    /\ t[1] = "["
    /\ t[Len(t)] = "]"
    /\ Len(t) > 2 => IsJsonItems(SubSeq(t, 2, Len(t) - 1))

\* C15: the body of an array response that the producer closed, made by sends
\* alone, is a valid JSON array.
C15_ValidArray ==
    (/\ mode = "array"
     /\ controllerRef = "closed"
     /\ ~aborted
     /\ \A i \in 1..Len(enqueued) : enqueued[i].op # "write")
        => IsJsonArray(Text(enqueued, Len(enqueued)))

\* C16: once the signal has aborted the channel is closed, so that no later
\* write or send enqueues anything; the abort listener is registered from the
\* start of the producer until the producer settles.
C16_AbortCloses ==
    /\ aborted => (closed /\ controllerRef # "readable")
    /\ mode \in Modes => (listening <=> (producer = "running" /\ ~aborted))

\* C17: a send of a value that JSON.stringify rejects raises to the caller and
\* leaves the stream as it was: nothing enqueued, not closed, first unchanged.
C17_SendThrows ==
    [][(~closed /\ Send("circular")) =>
          /\ lastCall' = Call("send", TRUE)
          /\ UNCHANGED <<enqueued, closed, first, controllerRef>>]_vars

\* A send that raised on an open stream that holds an earlier chunk.
C17_Witness ==
    /\ lastCall = Call("send", TRUE)
    /\ controllerRef = "readable"
    /\ ~closed
    /\ Len(enqueued) = 1

\* ---------------------------------------------------------------- allowed list claims
\* The position of a method in alphabetical order.
MethodRank(method) == CASE method = "GET" -> 1 [] method = "POST" -> 2 [] OTHER -> 3

\* C18 as stated: the allowed list of a method-not-allowed outcome is sorted,
\* whatever the order of the inserts.
C18_AllowedSorted ==
    (lastFind.called /\ Len(lastFind.result.allowed) > 0) =>
        \A i, j \in 1..Len(lastFind.result.allowed) :
            i < j => MethodRank(lastFind.result.allowed[i]) < MethodRank(lastFind.result.allowed[j])

\* C18, amended: the allowed list of a method-not-allowed outcome is the list
\* of the methods of one node of the trie, each once, in the order in which
\* they were first inserted at that node.
C18_AllowedInsertionOrder ==
    (lastFind.called /\ Len(lastFind.result.allowed) > 0) =>
        /\ \E node \in trieNodes :
              lastFind.result.allowed =
                  [i \in 1..Len(trieRoutes[node]) |-> trieRoutes[node][i].method]
        /\ \A i, j \in 1..Len(lastFind.result.allowed) :
              i # j => lastFind.result.allowed[i] # lastFind.result.allowed[j]
        /\ lastFind.result.route = NoRoute
        /\ lastFind.method \notin SeqToSet(lastFind.result.allowed)

\* POST /p/:slug inserted before GET /p/:id: a PUT finds POST, GET.
C18_Witness ==
    /\ lastFind.called
    /\ lastFind.method = "PUT"
    /\ lastFind.result.allowed = <<"POST", "GET">>

\* ---------------------------------------------------------------- base path claims
\* The pathname is the base path /api, or goes on after it with a '/': its
\* first part is "api".
AtBoundary(parts) == Len(parts) >= 1 /\ parts[1] = SegApi

\* C19: a request whose pathname is the base path or starts with the base path
\* and a '/' is routed by what follows the base path; any other request, such
\* as /apip/1 under /api, gets the not-found response and none of its
\* middlewares or handlers runs.
C19_BasePathBoundary ==
    \A r \in RequestIds :
        req[r] # NoRequest =>
            IF AtBoundary(req[r].parts)
            THEN req[r].method \in ALLOWED_HTTP_METHODS =>
                    LET match == Find(Tail(req[r].parts), req[r].method)
                    IN ~match.err => RouteOf(r) = match.route
            ELSE /\ RouteOf(r) = NoRoute
                 /\ trace[r] = <<>>
                 /\ pc[r] = "done"
                 /\ response[r] = toAstroResponse(notFound)

\* GET /apip/1 answered with 404 while GET /api/p/1 is in its chain.
C19_Witness ==
    \E r, q \in RequestIds :
        /\ req[r].parts = <<SegApi \o SegP, Seg1>>
        /\ response[r] = toAstroResponse(notFound)
        /\ req[q].parts = <<SegApi, SegP, Seg1>>
        /\ req[q].method = "GET"
        /\ RouteOf(q) # NoRoute

\* ---------------------------------------------------------------- slash claims
\* The non-empty parts of a path, in order.
RECURSIVE Compact(_, _)
Compact(parts, n) ==
    IF n = 0 THEN <<>>
    ELSE Compact(parts, n - 1) \o (IF parts[n] = <<>> THEN <<>> ELSE <<parts[n]>>)

SameButSlashes(p, q) == Compact(p, Len(p)) = Compact(q, Len(q))

\* C20: find gives the same outcome for two paths that differ only in
\* trailing or repeated slashes, and a route registered as /a/ or /p//a is the
\* one found for the URLs of /a and /p/a.
C20_SlashesIgnored ==
    lastFind.called =>
        /\ \A parts \in SlashPaths :
              SameButSlashes(parts, lastFind.parts)
                  => Find(parts, lastFind.method) = lastFind.result
        /\ (RTrailing \in Registered /\ lastFind.method = "GET"
              /\ SameButSlashes(lastFind.parts, <<SegA>>))
                  => lastFind.result.route = RTrailing
        /\ (RDouble \in Registered /\ lastFind.method = "POST"
              /\ SameButSlashes(lastFind.parts, <<SegP, SegA>>))
                  => lastFind.result.route = RDouble
        /\ lastFind.result.route \in {RTrailing, RDouble} =>
              PatternMatches(SelectSeq(lastFind.result.route.path, LAMBDA ps : ps.lit # <<>>),
                             Compact(lastFind.parts, Len(lastFind.parts)))

\* GET /a/ registered and found for the path /a, and POST /p//a registered
\* too.
C20_Witness ==
    /\ lastFind.called
    /\ lastFind.parts = <<SegA>>
    /\ lastFind.result.route = RTrailing
    /\ RDouble \in Registered
    /\ Find(<<<<>>, SegA, <<>>>>, "GET").route = RTrailing

\* ---------------------------------------------------------------- definition claims
\* Some '**' of the path is not its last part.
MisplacedCatchAll(path) == \E i \in 1..(Len(path) - 1) : path[i].k = "C"

\* C21: defineRoute raises for every path in which a '**' is not the last
\* part, so no route in the trie has parts after a '**'.
C21_CatchAllFinal ==
    /\ (lastDefine.called /\ MisplacedCatchAll(lastDefine.decl.path))
          => (lastDefine.message # "" /\ lastDefine.route = NoRoute)
    /\ \A route \in Registered : ~MisplacedCatchAll(route.path)

\* The declaration has a configuration error: a path without '/' in front, a
\* method outside the allowed set, or a '**' that is not the last part.
ConfigurationError(decl) ==
    \/ ~decl.lead
    \/ decl.method \notin ALLOWED_HTTP_METHODS
    \/ MisplacedCatchAll(decl.path)

\* C29: a call of defineRoute for a declaration with a configuration error
\* raises, returns no route and leaves the registry as it was, also when
\* auto-registration was asked for.
C29_ConfigErrorRaises ==
    [][\A decl \in Declarations, auto \in BOOLEAN :
          (ConfigurationError(decl) /\ DefineRoute(decl, auto)) =>
              /\ lastDefine'.message # ""
              /\ lastDefine'.route = NoRoute
              /\ registryItems' = registryItems]_vars

\* ---------------------------------------------------------------- decoding claims
\* C22: a URL whose segments, percent-decoded, are the literals of the static
\* route /p/p is routed to it, and the parameter of /p/:id is delivered
\* decoded.
C22_DecodedStatic ==
    lastFind.called =>
        LET segs == Segmentize(lastFind.parts)
        IN /\ (/\ lastFind.method = "GET"
               /\ RStatic \in Registered
               /\ Len(segs) = 2
               /\ \A d \in 1..2 : Decodable(segs[d]) /\ DecodeURIComponent(segs[d]) = SegP)
                 => lastFind.result.route = RStatic
           /\ lastFind.result.route = RParam
                 => lastFind.result.params["id"] = DecodeURIComponent(segs[2])

\* C23: every value of the params of a match is the raw segment it was
\* captured from (the remaining segments joined by '/', for '*'),
\* percent-decoded once: %2570 is delivered as %70.
C23_DecodedOnce ==
    (lastFind.called /\ lastFind.result.route # NoRoute) =>
        LET segs == Segmentize(lastFind.parts)
            path == lastFind.result.route.path
            params == lastFind.result.params
        IN \A name \in DOMAIN params :
              IF name = "*"
              THEN params[name] = DecodeURIComponent(JoinSlash(segs, Len(path)))
              ELSE \E d \in 1..Len(path) :
                      /\ path[d].name = name
                      /\ params[name] = DecodeURIComponent(segs[d])

\* /p/%2570 found as /p/:id(\d+) with id = %70.
C23_Witness ==
    /\ lastFind.called
    /\ lastFind.parts = <<SegP, SegEncTwice>>
    /\ lastFind.result.route = RRegex
    /\ lastFind.result.params["id"] = SegEnc

\* ---------------------------------------------------------------- context claims
\* C24: when the router takes a request that matches a route, the params of
\* its context become the params the host had put there, each unchanged
\* unless the path captures a parameter of its name, and the captured ones.
C24_HostParamsKept ==
    [][\A r \in RequestIds :
          (pc[r] = "idle" /\ pc'[r] \notin {"idle", "done"}) =>
              LET host == ctx[r].params
                  captured == OwnParams(req'[r])
                  merged == ctx'[r].params
              IN /\ DOMAIN merged = DOMAIN host \cup DOMAIN captured
                 /\ \A name \in DOMAIN host \ DOMAIN captured : merged[name] = host[name]
                 /\ \A name \in DOMAIN captured : merged[name] = captured[name]]_vars

\* The handler of /api/p/1 sees the host's extra and the captured id.
C24_Witness ==
    \E r \in RequestIds :
        /\ req[r].parts = <<SegApi, SegP, Seg1>>
        /\ \E k \in 1..Len(trace[r]) :
              /\ trace[r][k].ev = "h"
              /\ trace[r][k].seen.params = ("id" :> Seg1) @@ ("extra" :> <<"h">>)

\* The values of key in the search parameters, in their order.
ValuesOf(search, key) ==
    LET at == SelectSeq(search, LAMBDA sp : sp.key = key)
    IN [k \in 1..Len(at) |-> at[k].value]

\* C25: the query of the context of a request has the keys of its search
\* parameters; a key that occurs once maps to its value, a key that occurs
\* more often to the array of all its values in their order.
C25_QueryMultiValue ==
    \A r \in RequestIds :
        pc[r] # "idle" =>
            LET search == req[r].search
                query == ctx[r].query
            IN /\ DOMAIN query = {search[k].key : k \in 1..Len(search)}
               /\ \A key \in DOMAIN query :
                     LET values == ValuesOf(search, key)
                     IN IF Len(values) = 1
                        THEN query[key] = QueryString(values[1])
                        ELSE query[key] = QueryArray(values)

\* ?a=x&b=y&a=y&a=x gives a = [x, y, x] and b = y.
C25_Witness ==
    \E r \in RequestIds :
        /\ pc[r] # "idle"
        /\ ctx[r].query = ("a" :> QueryArray(<<"x", "y", "x">>)) @@ ("b" :> QueryString("y"))

Unsupported(rq) == rq # NoRequest /\ toUpperCase(rq.method) \notin ALLOWED_HTTP_METHODS

UnsupportedError(rq) == defineHandlerCatch(Error("Unsupported HTTP method: " \o rq.method))

\* C26 as stated: a request with a method outside the allowed set runs no
\* middleware and no handler and its response is never a 404 or a 405.
C26_UnsupportedNeverRouted ==
    \A r \in RequestIds :
        Unsupported(req[r]) =>
            /\ trace[r] = <<>>
            /\ pc[r] \in {"idle", "done"}
            /\ response[r].status \notin {404, 405}

\* C26, amended: a request with a method outside the allowed set and a path
\* under the base path runs no middleware and no handler and is answered by
\* the error of normalizeMethod, whatever the routes; outside the base path
\* it is answered by the not-found result, as a request of any method is.
C26_UnsupportedUnderBasePath ==
    \A r \in RequestIds :
        Unsupported(req[r]) =>
            /\ trace[r] = <<>>
            /\ pc[r] = "done"
            /\ response[r] = IF StripBasePath(options.basePath, req[r].parts).ok
                             THEN UnsupportedError(req[r])
                             ELSE toAstroResponse(notFound)

\* TRACE /api/p/1, a path with a GET route, is answered 500.
C26_Witness ==
    \E r \in RequestIds :
        /\ req[r].parts = <<SegApi, SegP, Seg1>>
        /\ req[r].method = "TRACE"
        /\ response[r].status = 500

\* ---------------------------------------------------------------- wildcard claims
\* The names a route's path binds.
NamesOf(path) == {path[d].name : d \in {e \in 1..Len(path) : path[e].k \in {"P", "R"}}}

\* C27: /p/*/a is found for a path exactly when its non-empty segments are
\* p, one segment, a (a GET of such a path finds it unless a route is
\* registered for it that does not have the '*'), and no route with a '*'
\* gets an entry in params for it.
C27_WildcardOneSegment ==
    lastFind.called =>
        LET segs == Segmentize(lastFind.parts)
            route == lastFind.result.route
            fits == Len(segs) = 3 /\ segs[1] = SegP /\ segs[3] = SegA
        IN /\ route = RMiddle => fits
           /\ (fits /\ lastFind.method = "GET" /\ RMiddle \in Registered) => route = RMiddle
           /\ (route # NoRoute /\ \E d \in 1..Len(route.path) : route.path[d] = Wildcard)
                 => /\ Len(segs) = Len(route.path)
                    /\ DOMAIN lastFind.result.params = NamesOf(route.path)

\* /p/a/a is found as /p/*/a with no params.
C27_Witness ==
    /\ lastFind.called
    /\ lastFind.parts = <<SegP, SegA, SegA>>
    /\ lastFind.result.route = RMiddle
    /\ lastFind.result.params = <<>>

\* ---------------------------------------------------------------- createRouter claims
\* C28: createRouter called with an object of option keys as its only
\* argument makes a router with these options, whatever the keys: with
\* onError among them the router has the error producer.
C28_OptionsApplied ==
    [][\A names \in SUBSET OptionKeys :
          CreateRouter(Object(names), Absent) => options' = BuilderOptions(Object(names))]_vars

\* ---------------------------------------------------------------- backtracking claims
\* The places a lookup of segs can come to, in the order Static > Regex >
\* Param > Wildcard > Catch-all at every node: a node reached at the end of
\* the input, or a '**' child reached with segments left.
RECURSIVE Stops(_, _, _)
RECURSIVE StopsVia(_, _, _, _)
Stops(node, segs, index) ==
    IF index > Len(segs)
    THEN <<[end |-> TRUE, node |-> node]>>
    ELSE StopsVia(Candidates(node, segs, index), 1, segs, index)

StopsVia(cs, k, segs, index) ==
    IF k > Len(cs) THEN <<>>
    ELSE (IF cs[k].kind = "catchall"
          THEN <<[end |-> FALSE, node |-> cs[k].child]>>
          ELSE Stops(cs[k].child, segs, index + 1))
         \o StopsVia(cs, k + 1, segs, index)

RouteAt(node, method) == RoutesGet(node, method).route

\* What a place yields, as the claim states it: a node reached at the end of
\* the input yields its route for the method, a 405 when it has routes of
\* other methods only, and lets the lookup go on (first to its '**' child,
\* for an empty remainder) when it has no routes at all.
StatedAt(stop, method) ==
    LET own == RouteAt(stop.node, method)
        cnode == Append(stop.node, CatchAll)
    IN IF ~stop.end THEN [decides |-> TRUE, route |-> own]
       ELSE IF own # NoRoute THEN [decides |-> TRUE, route |-> own]
       ELSE IF Len(RoutesKeys(stop.node)) > 0 THEN [decides |-> TRUE, route |-> NoRoute]
       ELSE IF cnode \in trieNodes THEN [decides |-> TRUE, route |-> RouteAt(cnode, method)]
       ELSE [decides |-> FALSE, route |-> NoRoute]

\* What a place yields with the '**' child asked before the 405: a node
\* reached at the end of the input yields its route for the method, else the
\* route of its '**' child for the method, else a 405 when it or the child
\* has routes, and lets the lookup go on when it has neither.
YieldedAt(stop, method) ==
    LET own == RouteAt(stop.node, method)
        cnode == Append(stop.node, CatchAll)
    IN IF ~stop.end THEN [decides |-> TRUE, route |-> own]
       ELSE IF own # NoRoute THEN [decides |-> TRUE, route |-> own]
       ELSE IF cnode \in trieNodes THEN [decides |-> TRUE, route |-> RouteAt(cnode, method)]
       ELSE [decides |-> Len(RoutesKeys(stop.node)) > 0, route |-> NoRoute]

Outcome(route, status) == [route |-> route, status |-> status]

\* The outcome of the first place that decides; 404 when none does.
FirstDeciding(yields) ==
    LET deciding == {k \in 1..Len(yields) : yields[k].decides}
    IN IF deciding = {} THEN Outcome(NoRoute, 404)
       ELSE LET k == CHOOSE i \in deciding : \A j \in deciding : i <= j
            IN Outcome(yields[k].route, IF yields[k].route # NoRoute THEN 200 ELSE 405)

OutcomeOf(result) ==
    Outcome(result.route,
            IF result.route # NoRoute THEN 200 ELSE IF Len(result.allowed) > 0 THEN 405 ELSE 404)

DecodableLookup ==
    /\ lastFind.called
    /\ \A d \in 1..Len(lastFind.parts) : Decodable(lastFind.parts[d])

\* C30 as stated: the first node reached at the end of the input that has
\* routes decides the lookup, with its route for the method or else a 405;
\* the lookup goes on only from a node without routes; 404 is the outcome
\* when no place decides.
C30_FirstNodeDecides ==
    DecodableLookup =>
        LET segs == Segmentize(lastFind.parts)
            stops == Stops(Root, segs, 1)
        IN OutcomeOf(lastFind.result)
              = FirstDeciding([k \in 1..Len(stops) |-> StatedAt(stops[k], lastFind.method)])

\* C30, amended: the first node reached at the end of the input that has
\* routes or a '**' child decides the lookup: with its route for the method,
\* else the route of its '**' child for the method, else a 405; the lookup
\* goes on only from a node with neither, and 404 is the outcome when no
\* place decides.
C30_FirstNodeOrCatchAllDecides ==
    DecodableLookup =>
        LET segs == Segmentize(lastFind.parts)
            stops == Stops(Root, segs, 1)
        IN OutcomeOf(lastFind.result)
              = FirstDeciding([k \in 1..Len(stops) |-> YieldedAt(stops[k], lastFind.method)])

\* With POST /p and GET /** registered, GET /p is answered 405 at the node
\* /p although the catch-all of the root has a GET route.
C30_Witness ==
    /\ lastFind.called
    /\ Registered = {RExact, RCatch}
    /\ lastFind.parts = <<SegP>>
    /\ lastFind.method = "GET"
    /\ lastFind.result.route = NoRoute
    /\ lastFind.result.allowed = <<"POST">>

\* ---------------------------------------------------------------- fall-through claims
\* The registered routes of the method whose pattern the segments fit.
Fitting(segs, method) ==
    {r \in Registered : r.method = method /\ PatternMatches(r.path, segs)}

\* C31: when a route of the method fits the URL, find returns one, whatever
\* branches of higher priority accept the first segments and lead nowhere;
\* and the params returned hold the names of the returned route only, each
\* with the segment at its depth.
C31_FallThrough ==
    lastFind.called =>
        LET segs == Segmentize(lastFind.parts)
            res == lastFind.result
        IN /\ Fitting(segs, lastFind.method) # {} => res.route \in Fitting(segs, lastFind.method)
           /\ res.route # NoRoute =>
                 /\ DOMAIN res.params = NamesOf(res.route.path)
                 /\ \A d \in 1..Len(res.route.path) :
                       res.route.path[d].k \in {"P", "R"}
                          => res.params[res.route.path[d].name] = DecodeURIComponent(segs[d])

\* With /:n(\d+)/p, /:id/a and /*/1 registered, /1/1 is found as /*/1 after
\* the regex and the param branch were given up, with no params.
C31_Witness ==
    /\ lastFind.called
    /\ {RDigitsP, RIdA, RAny1} \subseteq Registered
    /\ lastFind.parts = <<Seg1, Seg1>>
    /\ lastFind.result.route = RAny1
    /\ lastFind.result.params = <<>>

\* ---------------------------------------------------------------- outcome claims
\* C32: a 405 response lists at least one method, and a request of an
\* allowed method under the base path whose path fits no registered route
\* of any method (a strict prefix of a pattern, say) is answered 404.
C32_AllowedNonEmpty ==
    \A r \in RequestIds :
        pc[r] = "done" =>
            LET stripped == StripBasePath(options.basePath, req[r].parts)
                segs == Segmentize(stripped.path)
            IN /\ response[r].status = 405 => Len(response[r].allow) > 0
               /\ (/\ stripped.ok
                   /\ ~Unsupported(req[r])
                   /\ {route \in Registered : PatternMatches(route.path, segs)} = {})
                     => response[r].status = 404

\* POST /api/p/1 is answered 405 with Allow: GET and GET /api/p, the prefix
\* of /p/:id, is answered 404.
C32_Witness ==
    \E r, o \in RequestIds :
        /\ pc[r] = "done" /\ pc[o] = "done"
        /\ req[r].method = "POST" /\ response[r].status = 405 /\ response[r].allow = <<"GET">>
        /\ req[o].parts = <<SegApi, SegP>> /\ response[o].status = 404

\* ---------------------------------------------------------------- repeated next() claims
\* How often the handler, and the middleware of index j, were entered.
HandlerRuns(tr) == Cardinality({k \in 1..Len(tr) : tr[k].ev = "h"})

MiddlewareRuns(tr, j) == Cardinality({k \in 1..Len(tr) : tr[k].ev = "pre" /\ tr[k].i = j})

\* C33: within one request the handler and each middleware of the chain run
\* at most once, also when a middleware calls next() again after its first
\* next() has resolved.
C33_AtMostOnce ==
    \A r \in RequestIds :
        /\ HandlerRuns(trace[r]) <= 1
        /\ InChain(r) => \A j \in 0..(Len(ChainOf(r)) - 1) : MiddlewareRuns(trace[r], j) <= 1

\* ---------------------------------------------------------------- duplicate claims
\* C34: GET /p/1 being added more than once, to the builder and to its
\* group, the built router finds for GET /p/1 the route of the last call.
C34_LastAddedWins ==
    (built /\ NextCall > 1) =>
        Find(<<SegP, Seg1>>, "GET").route.handler = HandlerOf(NextCall - 1)

\* ---------------------------------------------------------------- exact route claims
\* C35: when the URL ends at a node that has a route for the method and
\* whose '**' child has one for the method too, find returns the node's own
\* route, with the names of its path bound, and not the catch-all route.
C35_ExactBeforeCatchAll ==
    lastFind.called =>
        LET segs == Segmentize(lastFind.parts)
            res == lastFind.result
        IN \A own, rest \in Registered :
              (/\ own.method = lastFind.method
               /\ rest.method = lastFind.method
               /\ rest.path = own.path \o <<CatchAll>>
               /\ PatternMatches(own.path, segs))
                 => /\ res.route = own
                    /\ DOMAIN res.params = NamesOf(own.path)
                    /\ \A d \in 1..Len(own.path) :
                          own.path[d].k = "P" => res.params[own.path[d].name] = segs[d]

\* With GET /p/:id and GET /p/:id/** registered, /p/1 is found as /p/:id
\* with id = 1.
C35_Witness ==
    /\ lastFind.called
    /\ {RParam, RParamRest} \subseteq Registered
    /\ lastFind.parts = <<SegP, Seg1>>
    /\ lastFind.result.route = RParam
    /\ lastFind.result.params = ("id" :> Seg1)

\* ---------------------------------------------------------------- rejected producer claims
\* C36: once the producer has rejected, the stream is errored (unless it was
\* closed before), the abort listener is gone, and no later write(), send()
\* or close() enqueues or raises.
C36_RejectedQuiet ==
    [][producer = "rejected" =>
          /\ controllerRef # "readable"
          /\ ~listening
          /\ enqueued' = enqueued
          /\ lastCall' # lastCall => ~lastCall'.raised]_vars

\* ---------------------------------------------------------------- shared state claims
\* C37: the first entry of the chain of a request finds the state empty,
\* and what a middleware has written to it before calling next() is seen
\* with its value by every entry of the chain that runs after it.
C37_StateShared ==
    \A r \in RequestIds :
        /\ Len(trace[r]) >= 1 => trace[r][1].seen.state = <<>>
        /\ \A k, l \in 1..Len(trace[r]) :
              (k < l /\ trace[r][k].ev = "pre") =>
                  /\ trace[r][k].i \in DOMAIN trace[r][l].seen.state
                  /\ trace[r][l].seen.state[trace[r][k].i] = TokenOf(req[r])

\* The handler behind two middlewares sees what both have written.
C37_Witness ==
    \E r \in RequestIds :
        \E l \in 1..Len(trace[r]) :
            /\ trace[r][l].ev = "h"
            /\ DOMAIN trace[r][l].seen.state = {0, 1}
            /\ trace[r][l].seen.state[1] = TokenOf(req[r])

\* ---------------------------------------------------------------- C38
\* C38: once the router is built, no step changes the trie (its nodes, the
\* method maps of the routes, the regexChildren lists with the state of their
\* regexes), and the match a lookup returns is the match the same lookup
\* returns on the trie the lookup leaves behind.
C38_FindReadsOnly ==
    /\ [][built => /\ trieNodes' = trieNodes
                   /\ trieRoutes' = trieRoutes
                   /\ trieRegex' = trieRegex]_vars
    /\ [](lastFind.called => lastFind.result = Find(lastFind.parts, lastFind.method))

\* A lookup that tested a regex child against a segment of digits.
C38_Witness ==
    /\ built
    /\ lastFind.called
    /\ lastFind.result.route = RRegex
    /\ \E nd \in trieNodes : \E j \in 1..Len(trieRegex[nd]) :
          /\ Len(nd) < Len(Segmentize(lastFind.parts))
          /\ RegexTest(trieRegex[nd][j].re, Segmentize(lastFind.parts)[Len(nd) + 1])
          /\ trieRegex[nd][j].lastIndex = 0

\* ---------------------------------------------------------------- C39
\* C39 as stated: the match a lookup returned is the match the same lookup
\* returns on the trie of the same routes inserted in any other order.
C39_OrderFree ==
    (built /\ lastFind.called) => lastFind.result = Find(lastFind.parts, lastFind.method)

\* C39, amended: the two matches have the same route, the same params and
\* the same methods in their allowed lists; the order of an allowed list is
\* the order of the inserts.
C39_OrderFreeButAllowed ==
    (built /\ lastFind.called) =>
        LET again == Find(lastFind.parts, lastFind.method)
        IN /\ again.route = lastFind.result.route
           /\ again.params = lastFind.result.params
           /\ again.err = lastFind.result.err
           /\ SeqToSet(again.allowed) = SeqToSet(lastFind.result.allowed)
           /\ Len(again.allowed) = Len(lastFind.result.allowed)

\* /p/1 was looked up in a trie with both regex constraints at /p, \d+ the
\* first inserted, and the trie the caller has now had [0-9a-z]+ inserted
\* first.
C39_Witness ==
    /\ built
    /\ lastFind.called
    /\ lastFind.parts = <<SegP, Seg1>>
    /\ lastFind.result.route = RAlnum
    /\ {RRegex, RAlnum, RParam} \subseteq Registered
    /\ \E order \in OrdersOf(Registered) :
          /\ \E i, j \in 1..Len(order) : i < j /\ order[i] = RAlnum /\ order[j] = RRegex
          /\ trieRoutes = TrieOf(order, Len(order)).routes

\* ---------------------------------------------------------------- C40
\* C40: the registry holds exactly the declarations registered since the last
\* clear(), in the order of their registration, duplicates of one key among
\* them, whatever was done to the lists getItems() handed out and whatever
\* addRegistered did; and getItems() hands out that list.
C40_AppendOnly ==
    /\ [](registryItems = registered)
    /\ [][CallGetItems => returned'.list = registered]_vars

\* Two declarations of one key are registered, addRegistered has run, and
\* the caller has changed the list it was handed.
C40_Witness ==
    /\ Len(registered) >= 2
    /\ \E i, j \in 1..Len(registered) :
          i < j /\ registered[i] # registered[j] /\ ItemKey(registered[i]) = ItemKey(registered[j])
    /\ builderRoutes # <<>>
    /\ returned.held
    /\ returned.list # registryItems
    /\ registryItems = registered

====
